---- MODULE Spec2Model ----
(***************************************************************************)
(* wine_chroot as state machines: the chroot bootstrap sequencer           *)
(* (ChrootManager.initialize) and the init command around it (cmd_init),   *)
(* the path translators and slugify (utils.py), the dependency check, the  *)
(* run command (main, cmd_run, WineRunner.run), the launcher and icon      *)
(* code (create_launcher, extract_icon, list_desktop_files,                *)
(* remove_launcher) and the configuration loader (Config, cmd_config).     *)
(* Each component has its own specification; the state of the others is   *)
(* at rest in it.                                                          *)
(*                                                                         *)
(* An external command is modelled by the outcome subprocess.run can have  *)
(* for it: a normal return, or one of the exceptions it can raise given    *)
(* the keyword arguments of the call (check=True, timeout=, text=True).    *)
(* Strings that are converted or compared are sequences of characters.     *)
(***************************************************************************)
EXTENDS Naturals, Sequences, FiniteSets, TLC

VARIABLES
    host,         \* the commands and files present on the host
    exists,       \* the chroot paths that exist on the filesystem
    schrootConf,  \* /etc/schroot/chroot.d/<name>.conf: name -> directory, NoPath when absent
    fstab,        \* /etc/schroot/default/fstab: "absent", "original" or "written"
    backups,      \* number of fstab.backup.<timestamp> copies made
    pc,           \* "idle", or the step initialize is about to execute
    chroot_name,  \* initialize's chroot_name after lines 100-109
    chroot_path,  \* initialize's chroot_path after lines 100-109
    skip_wine,    \* initialize's skip_wine argument
    dry_run,      \* initialize's dry_run argument
    stepsRun,     \* the steps entered by the current call, in order
    invoked,      \* the steps of the current call that started an external process, in order
    lastCmds,     \* the external commands started by the most recent step
    lastFailure,  \* the step and exception of the most recent failing command of the call
    result,       \* "none" while running, then "True", "False" or "raised"
    runs,         \* number of calls of initialize so far
    bootstrapped, \* history: the paths a non-dry-run debootstrap has succeeded on
    entry,        \* history: the filesystem and `bootstrapped` when the current call began
    path_pc,      \* "start" before linux_path_to_windows is called, then "converted"
    path_in,      \* linux_path_to_windows: the argument, a sequence of characters
    path_out,     \* linux_path_to_windows: the returned string
    rt_chroot,    \* windows_path_to_linux: the chroot_path argument
    rt_prefix,    \* windows_path_to_linux: the wine_prefix argument
    path_back,    \* windows_path_to_linux: the returned Path, as its string
    slug_pc,      \* "start", "slugged" after slugify(slug_in), "reslugged" after the second call
    slug_in,      \* slugify: the argument, a sequence of characters
    slug_out,     \* slugify(slug_in)
    slug_again,   \* slugify(slug_out)
    dep_pc,       \* "start" before check_system_dependencies is called, then "checked"
    dep_result,   \* check_system_dependencies: the returned (all_ok, missing_commands)
    dep_log,      \* check_system_dependencies: the tools it printed a line for, in order
    run_pc,       \* cmd_run: "start", then "check_wine", "run", and "done" when it has returned or raised
    run_fs,       \* the host filesystem: what is at each path an executable may be named by
    run_cfg,      \* Config: execution.use_pkexec and execution.x11_forwarding
    wine_installed,\* whether wine --version succeeds inside the chroot
    run_args,     \* cmd_run: args.exe, args.wait and args.terminal
    run_cmd,      \* WineRunner.run: the command line it built
    run_mode,     \* WineRunner.run: "none", "sync" after subprocess.run, "detached" after Popen
    run_ret,      \* cmd_run: what it returned or raised
    child,        \* the wine process: "none", "running", "exited" or "killed", and its exit code
    main_ret,     \* main: whether the run command has ended, and the exit status of the process
    desk_pc,      \* create_launcher: "idle" between calls, else the stage about to run: "wrestool", "icotool", "select" (extract_icon) or "write"
    desk_calls,   \* number of create_launcher calls so far
    desk_call,    \* create_launcher: exe_path, app_name, extract_icon_flag and desktop_filename
    desk_ret,     \* create_launcher: what it returned or raised
    icon_ret,     \* extract_icon: what it returned or raised in the current call
    launchers,    \* the applications directory: launcher path -> lines of the file
    icon_files,   \* the icon directory: icon path -> the PNG copied there
    tmp_ico,      \* /tmp/<icon_name>.ico: icon name -> the call and executable wrestool wrote it for
    tmp_png_dir,  \* /tmp/wine_chroot_icons: PNG file name -> the call and executable it was made for
    produced,     \* history: the PNG files the icotool run of the current call wrote
    icon_fail,    \* history: the stage failure of extract_icon in the current call, "none" if none
    entry_icons,  \* history: the icon directory when the current call began
    live,         \* history: for each launcher created and not removed since, the name and filename arguments of the latest create
    remove_ret,   \* remove_launcher: the path it was given, whether the file existed, the value returned
    listed,       \* list_desktop_files: whether it has returned since the last change, and the list
    cfg_pc,       \* Config: "start" before construction, then "built" or "exit"
    cfg_fs,       \* Config: what each configuration file location holds
    cfg_arg,      \* Config.__init__: the config_path argument, NoConfigPath for None
    tomllib_ok,   \* Config: a TOML parser module was imported
    config_path,  \* Config.config_path after construction
    data,         \* Config.data after construction
    probed,       \* history: the default locations the search loop tested, in order
    shown,        \* cmd_config --show: the source line printed
    ci_pc,        \* cmd_init: "start", "prompt" while input() waits, "initialize" from the call of initialize to its end, "done"
    ci_args,      \* cmd_init: args.name, args.path, args.skip_wine and args.dry_run
    prompt_path,  \* cmd_init: the installation path the warning printed, NoPath when none was printed
    answer,       \* cmd_init: whether input() returned, and the text it returned
    ci_ret        \* cmd_init: what it returned or raised

vars == <<host, exists, schrootConf, fstab, backups, pc, chroot_name, chroot_path,
          skip_wine, dry_run, stepsRun, invoked, lastCmds, lastFailure, result, runs,
          bootstrapped, entry, path_pc, path_in, path_out, rt_chroot, rt_prefix, path_back,
          slug_pc, slug_in, slug_out, slug_again,
          dep_pc, dep_result, dep_log,
          run_pc, run_fs, run_cfg, wine_installed, run_args, run_cmd, run_mode, run_ret, child,
          main_ret,
          desk_pc, desk_calls, desk_call, desk_ret, icon_ret, launchers, icon_files, tmp_ico, tmp_png_dir, produced, icon_fail, entry_icons,
          live, remove_ret, listed,
          cfg_pc, cfg_fs, cfg_arg, tomllib_ok, config_path, data, probed, shown,
          ci_pc, ci_args, prompt_path, answer, ci_ret>>

bootVars == <<host, exists, schrootConf, fstab, backups, pc, chroot_name, chroot_path,
              skip_wine, dry_run, stepsRun, invoked, lastCmds, lastFailure, result, runs,
              bootstrapped, entry>>

pathVars == <<path_pc, path_in, path_out>>

roundVars == <<rt_chroot, rt_prefix, path_back>>

slugVars == <<slug_pc, slug_in, slug_out, slug_again>>

depVars == <<dep_pc, dep_result, dep_log>>

runVars == <<run_pc, run_fs, run_cfg, wine_installed, run_args, run_cmd, run_mode, run_ret, child,
             main_ret>>

deskVars == <<desk_pc, desk_calls, desk_call, desk_ret, icon_ret, launchers, icon_files, tmp_ico, tmp_png_dir, produced, icon_fail, entry_icons,
             live, remove_ret, listed>>

cfgVars == <<cfg_pc, cfg_fs, cfg_arg, tomllib_ok, config_path, data, probed, shown>>

cmdInitVars == <<ci_pc, ci_args, prompt_path, answer, ci_ret>>

\* everything but the bootstrapper's state
restVars == <<pathVars, roundVars, slugVars, depVars, runVars, deskVars, cfgVars, cmdInitVars>>

\* everything but the path translator's state
notPath == <<bootVars, slugVars, depVars, runVars, deskVars, cfgVars, cmdInitVars>>

\* everything but slugify's state
notSlug == <<bootVars, pathVars, roundVars, depVars, runVars, deskVars, cfgVars, cmdInitVars>>

\* no conversion under way
PathAtRest ==
    /\ path_pc = "start"
    /\ path_in = <<>>
    /\ path_out = <<>>

RoundAtRest ==
    /\ rt_chroot = <<>>
    /\ rt_prefix = <<>>
    /\ path_back = <<>>

SlugAtRest ==
    /\ slug_pc = "start"
    /\ slug_in = <<>>
    /\ slug_out = <<>>
    /\ slug_again = <<>>

\* everything but the dependency check's state
notDeps == <<bootVars, pathVars, roundVars, slugVars, runVars, deskVars, cfgVars, cmdInitVars>>

DepsAtRest ==
    /\ dep_pc = "start"
    /\ dep_result = [ok |-> FALSE, missing |-> <<>>]
    /\ dep_log = <<>>

\* no command line built, nothing returned, no wine process
NoCmd == [priv |-> "", chroot |-> "", env |-> FALSE, exe |-> <<>>]

NoReturn == [kind |-> "none", code |-> 0]

NoChild == [state |-> "none", code |-> 0]

\* main has not ended
NoExit == [done |-> FALSE, code |-> 0]

\* everything but the application runner's state
notRun == <<bootVars, pathVars, roundVars, slugVars, depVars, deskVars, cfgVars, cmdInitVars>>

RunAtRest ==
    /\ run_pc = "start"
    /\ run_fs = <<>>
    /\ run_cfg = [use_pkexec |-> FALSE, x11_forwarding |-> TRUE]
    /\ wine_installed = FALSE
    /\ run_args = [exe |-> <<>>, wait |-> FALSE, terminal |-> FALSE]
    /\ run_cmd = NoCmd
    /\ run_mode = "none"
    /\ run_ret = NoReturn
    /\ child = NoChild
    /\ main_ret = NoExit

\* no create_launcher call yet, nothing returned by it or by extract_icon
NoCall == [exe |-> <<>>, name |-> <<>>, icon |-> FALSE, filename |-> <<>>]

NoLauncher == [kind |-> "none", file |-> <<>>]

NoIcon == [kind |-> "none", path |-> <<>>]

\* remove_launcher not called, list_desktop_files not called
NoRemove == [file |-> <<>>, existed |-> FALSE, value |-> FALSE]

NoListing == [done |-> FALSE, list |-> <<>>]

\* everything but the state of the launchers and icons
notDesk == <<bootVars, pathVars, roundVars, slugVars, depVars, runVars, cfgVars, cmdInitVars>>

DeskAtRest ==
    /\ desk_pc = "idle"
    /\ desk_calls = 0
    /\ desk_call = NoCall
    /\ desk_ret = NoLauncher
    /\ icon_ret = NoIcon
    /\ launchers = <<>>
    /\ icon_files = <<>>
    /\ tmp_ico = <<>>
    /\ tmp_png_dir = <<>>
    /\ produced = {}
    /\ icon_fail = "none"
    /\ entry_icons = <<>>
    /\ live = <<>>
    /\ remove_ret = NoRemove
    /\ listed = NoListing

\* everything but the state of Config
notConfig == <<bootVars, pathVars, roundVars, slugVars, depVars, runVars, deskVars, cmdInitVars>>

ConfigAtRest ==
    /\ cfg_pc = "start"
    /\ cfg_fs = <<>>
    /\ cfg_arg = "None"
    /\ tomllib_ok = TRUE
    /\ config_path = "None"
    /\ data = [kind |-> "unset", path |-> "None"]
    /\ probed = <<>>
    /\ shown = "none"

\* everything but the state of cmd_init
notCmdInit == <<bootVars, pathVars, roundVars, slugVars, depVars, runVars, deskVars, cfgVars>>

CmdInitAtRest ==
    /\ ci_pc = "start"
    /\ ci_args = [name |-> "", path |-> "", skip |-> FALSE, dry |-> FALSE]
    /\ prompt_path = ""
    /\ answer = [given |-> FALSE, text |-> <<>>]
    /\ ci_ret = NoReturn

(***************************************************************************)
(* Bounds                                                                  *)
(***************************************************************************)
MaxRuns == 2
MaxSegs == 4
MaxSlugLen == 5
MaxCalls == 2

(***************************************************************************)
(* Configuration defaults and the values the arguments are drawn from      *)
(***************************************************************************)
None == ""
NoPath == ""
ConfigChrootName == "debian-amd64"
ConfigChrootPath == "/srv/debian-amd64"
CustomName == "wine2"
CustomPath == "/opt/chroot"

NameArgs == {None, ConfigChrootName, CustomName}
PathArgs == {None, CustomPath}

\* Path("/srv") / chroot_name
SrvPath(name) == IF name = ConfigChrootName THEN "/srv/debian-amd64" ELSE "/srv/wine2"

Names == {ConfigChrootName, CustomName}
Paths == {ConfigChrootPath, SrvPath(CustomName), CustomPath}

(***************************************************************************)
(* The host                                                                *)
(***************************************************************************)
QemuOnPath == "qemu-x86_64-static"
QemuUsrBin == "/usr/bin/qemu-x86_64-static"
QemuLibexec == "/usr/libexec/qemu-binfmt/x86_64-static"

ToolAtoms == {"debootstrap", "schroot", "pkexec", QemuOnPath, QemuUsrBin, QemuLibexec}

required == <<"debootstrap", "schroot", "qemu-x86_64-static", "pkexec">>

check_command_exists(h, cmd) == cmd \in h

ToolMissing(h, cmd) ==
    IF cmd = "qemu-x86_64-static"
    THEN ~(check_command_exists(h, QemuOnPath) \/ QemuUsrBin \in h \/ QemuLibexec \in h)
    ELSE ~check_command_exists(h, cmd)

\* check_prerequisites: the missing commands, in the order of `required`
check_prerequisites(h) == SelectSeq(required, LAMBDA cmd : ToolMissing(h, cmd))

(***************************************************************************)
(* Steps and their external commands                                       *)
(***************************************************************************)
StepOrder == <<"CheckPrerequisites", "CheckPathAvailable", "CreateBaseSystem",
               "RegisterSchroot", "ConfigureBindMounts", "ConfigureLocales",
               "ConfigureRepositories", "EnableMultiarch", "InstallWine",
               "VerifyInstallation">>

Steps == {StepOrder[i] : i \in 1..Len(StepOrder)}

StepIndex(s) == CHOOSE i \in 1..Len(StepOrder) : StepOrder[i] = s

SoftSteps == {"ConfigureLocales", "ConfigureRepositories", "EnableMultiarch"}

\* mutant: RegisterSchroot and ConfigureBindMounts exchanged
NextPc_Swapped(s) ==
    CASE s = "CreateBaseSystem" -> "ConfigureBindMounts"
      [] s = "ConfigureBindMounts" -> "RegisterSchroot"
      [] s = "RegisterSchroot" -> "ConfigureLocales"
      [] s = "VerifyInstallation" -> "idle"
      [] OTHER -> StepOrder[StepIndex(s) + 1]

\* the step initialize executes after step s returned without aborting
NextPc(s) == IF StepIndex(s) = Len(StepOrder) THEN "idle" ELSE StepOrder[StepIndex(s) + 1]

\* variant: the table is written without a backup copy
FstabCmds_NoBackup(fstabExists) == <<"sudo tee fstab">>

\* the subprocess.run calls of _configure_fstab: the backup copy when
\* fstab_file.exists(), then the write
FstabCmds(fstabExists) ==
    IF fstabExists THEN <<"sudo cp fstab backup", "sudo tee fstab">>
    ELSE <<"sudo tee fstab">>

\* the subprocess.run calls of a step, in program order (non-dry-run)
StepCmds(s, fstabExists) ==
    CASE s = "CheckPrerequisites" -> <<"sudo -n true">>
      [] s = "CheckPathAvailable" -> <<>>
      [] s = "CreateBaseSystem" -> <<"sudo debootstrap">>
      [] s = "RegisterSchroot" -> <<"sudo tee chroot.d conf">>
      [] s = "ConfigureBindMounts" -> FstabCmds(fstabExists)
      [] s = "ConfigureLocales" ->
            <<"apt update (locales)", "apt install locales", "locale-gen">>
      [] s = "ConfigureRepositories" ->
            <<"tee sources.list", "apt update (repositories)">>
      [] s = "EnableMultiarch" ->
            <<"dpkg --add-architecture i386", "apt update (i386)">>
      [] s = "InstallWine" -> <<"apt install wine">>
      [] s = "VerifyInstallation" -> <<"schroot echo test", "wine --version">>

\* the calls given timeout=
HasTimeout(cmd) ==
    cmd \in {"sudo -n true", "sudo debootstrap", "apt install wine",
             "schroot echo test", "wine --version"}

\* the calls given text=True together with capture_output=True
HasText(cmd) ==
    cmd \in {"sudo debootstrap", "sudo tee chroot.d conf", "sudo tee fstab",
             "apt update (locales)", "apt install locales", "tee sources.list",
             "dpkg --add-architecture i386", "apt install wine",
             "schroot echo test", "wine --version"}

\* "ok", or the exception raised: CalledProcessError, TimeoutExpired,
\* FileNotFoundError, PermissionError, another OSError, UnicodeDecodeError
Kinds == {"ok", "nonzero", "timeout", "notfound", "perm", "oserror", "unicode"}

Outcomes(cmd) ==
    {"ok", "nonzero", "notfound", "perm", "oserror"}
        \cup (IF HasTimeout(cmd) THEN {"timeout"} ELSE {})
        \cup (IF HasText(cmd) THEN {"unicode"} ELSE {})

\* the except clauses of each step function: the exceptions caught
Caught(s) ==
    CASE s = "CheckPrerequisites" -> {"nonzero", "timeout", "notfound"}
      [] s = "CheckPathAvailable" -> {}
      [] s = "CreateBaseSystem" -> {"nonzero", "timeout", "notfound", "perm", "oserror"}
      [] s = "RegisterSchroot" -> {"nonzero", "notfound", "perm", "oserror"}
      [] s = "ConfigureBindMounts" -> {"nonzero", "notfound", "perm", "oserror"}
      [] s = "ConfigureLocales" -> {"nonzero", "notfound", "perm", "oserror", "unicode"}
      [] s = "ConfigureRepositories" -> {"nonzero", "notfound", "perm", "oserror", "unicode"}
      [] s = "EnableMultiarch" -> {"nonzero", "notfound", "perm", "oserror"}
      [] s = "InstallWine" -> {"nonzero", "timeout", "notfound", "perm", "oserror"}
      [] s = "VerifyInstallation" -> {"nonzero", "timeout", "notfound", "perm", "oserror"}

\* mutant: the soft steps return False like the others
OnCaught_AlwaysFalse(s) == "False"

\* what the except clauses return for a caught exception
OnCaught(s) == IF s \in SoftSteps THEN "True" ELSE "False"

\* the value the step function returns, or "raise" when the exception escapes it
StepReturn(s, kind) ==
    IF kind = "ok" THEN "True"
    ELSE IF kind \in Caught(s) THEN OnCaught(s)
    ELSE "raise"

\* mutant: the result of _configure_fstab is not tested
AbortsOnFalse_FstabIgnored(s) ==
    s \notin {"CheckPrerequisites", "VerifyInstallation", "ConfigureBindMounts"}

\* mutant: the result of _install_wine is not tested
AbortsOnFalse_WineIgnored(s) ==
    s \notin {"CheckPrerequisites", "VerifyInstallation", "InstallWine"}

\* mutant: a failed verification returns False from initialize
AbortsOnFalse_VerifyAborts(s) == s # "CheckPrerequisites"

\* initialize's use of the returned value: `if not ...: return False`, except for
\* check_root_access and _verify_installation, whose False only prints a warning
AbortsOnFalse(s) == s \notin {"CheckPrerequisites", "VerifyInstallation"}

\* mutant: _install_wine without its dry_run branch
DryRunGuarded_WineUnguarded(s) ==
    s \notin {"CheckPrerequisites", "CheckPathAvailable", "VerifyInstallation", "InstallWine"}

\* whether the step's dry_run branch returns before any subprocess.run
DryRunGuarded(s) == s \notin {"CheckPrerequisites", "CheckPathAvailable", "VerifyInstallation"}

\* the executions of a command sequence: n commands started, the n-th ended `kind`
Executions(cmds) ==
    IF cmds = <<>> THEN {[n |-> 0, kind |-> "ok"]}
    ELSE {[n |-> n, kind |-> k] : n \in 1..Len(cmds), k \in Kinds} \cap
         {e \in [n : 1..Len(cmds), kind : Kinds] :
              /\ e.kind \in Outcomes(cmds[e.n])
              /\ e.kind = "ok" => e.n = Len(cmds)}

\* whether the command's effect on the filesystem took place, given how it ended
Effects(kind) ==
    IF kind = "ok" THEN {TRUE}
    ELSE IF kind \in {"notfound", "perm"} THEN {FALSE}
    ELSE {TRUE, FALSE}

NoFailure == [step |-> "none", kind |-> "ok"]

\* the record kept of the filesystem at the entry of a call
Snapshot(ex, conf, tab, bk, boot) ==
    [exists |-> ex, schrootConf |-> conf, fstab |-> tab, backups |-> bk,
     bootstrapped |-> boot]

(***************************************************************************)
(* Initial state                                                           *)
(***************************************************************************)
BootInit ==
    /\ host \in SUBSET ToolAtoms
    /\ exists \in {{}, {ConfigChrootPath}}
    /\ schrootConf = [n \in Names |-> NoPath]
    /\ fstab \in {"absent", "original"}
    /\ backups = 0
    /\ pc = "idle"
    /\ chroot_name = None
    /\ chroot_path = NoPath
    /\ skip_wine = FALSE
    /\ dry_run = FALSE
    /\ stepsRun = <<>>
    /\ invoked = <<>>
    /\ lastCmds = <<>>
    /\ lastFailure = NoFailure
    /\ result = "none"
    /\ runs = 0
    /\ bootstrapped = {}
    /\ entry = Snapshot(exists, schrootConf, fstab, backups, {})

Init ==
    /\ BootInit
    /\ CmdInitAtRest
    /\ ConfigAtRest
    /\ DeskAtRest
    /\ RunAtRest
    /\ DepsAtRest
    /\ PathAtRest
    /\ RoundAtRest
    /\ SlugAtRest

(***************************************************************************)
(* ChrootManager.initialize                                                *)
(***************************************************************************)
\* lines 100-109: the name and path used when the arguments are not given
ResolveName(name) == IF name = None THEN ConfigChrootName ELSE name

ResolvePath(name, path) ==
    IF path # None THEN path
    ELSE IF ResolveName(name) # None /\ ResolveName(name) # ConfigChrootName
         THEN SrvPath(ResolveName(name))
         ELSE ConfigChrootPath

\* entry of initialize, up to the banner (lines 100-119)
Initialize(name, path, skip, dry) ==
    /\ pc = "idle"
    /\ runs < MaxRuns
    /\ runs' = runs + 1
    /\ chroot_name' = ResolveName(name)
    /\ chroot_path' = ResolvePath(name, path)
    /\ skip_wine' = skip
    /\ dry_run' = dry
    /\ stepsRun' = <<>>
    /\ invoked' = <<>>
    /\ lastCmds' = <<>>
    /\ lastFailure' = NoFailure
    /\ result' = "none"
    /\ pc' = StepOrder[1]
    /\ entry' = Snapshot(exists, schrootConf, fstab, backups, bootstrapped)
    /\ UNCHANGED <<host, exists, schrootConf, fstab, backups, bootstrapped>>
    /\ UNCHANGED restVars

\* a call of initialize with arguments drawn from the argument sets
CallInitialize ==
    \E name \in NameArgs, path \in PathArgs, skip \in BOOLEAN, dry \in BOOLEAN :
        Initialize(name, path, skip, dry)

\* the commands step s starts in this call
CmdsOf(s) ==
    IF dry_run /\ DryRunGuarded(s) THEN <<>> ELSE StepCmds(s, fstab # "absent")

\* control flow after step s started e.n of its commands, the last ending e.kind
Finish(s, e) ==
    LET ret == StepReturn(s, e.kind) IN
    /\ stepsRun' = Append(stepsRun, s)
    /\ invoked' = IF e.n > 0 THEN Append(invoked, s) ELSE invoked
    /\ lastCmds' = SubSeq(CmdsOf(s), 1, e.n)
    /\ lastFailure' = IF e.kind = "ok" THEN lastFailure
                      ELSE [step |-> s, kind |-> e.kind]
    /\ IF ret = "raise" THEN pc' = "idle" /\ result' = "raised"
       ELSE IF ret = "False" /\ AbortsOnFalse(s) THEN pc' = "idle" /\ result' = "False"
       ELSE /\ pc' = NextPc(s)
            /\ result' = IF NextPc(s) = "idle" THEN "True" ELSE "none"
    /\ UNCHANGED <<host, chroot_name, chroot_path, skip_wine, dry_run, runs, entry>>
    /\ UNCHANGED restVars

\* step 1 (lines 121-134): check_prerequisites, then check_root_access
CheckPrerequisites ==
    /\ pc = "CheckPrerequisites"
    /\ IF check_prerequisites(host) # <<>>
       THEN /\ stepsRun' = Append(stepsRun, "CheckPrerequisites")
            /\ pc' = "idle"
            /\ result' = "False"
            /\ lastCmds' = <<>>
            /\ UNCHANGED <<host, chroot_name, chroot_path, skip_wine, dry_run, runs,
                           invoked, lastFailure, entry>>
            /\ UNCHANGED restVars
       ELSE \E e \in Executions(CmdsOf("CheckPrerequisites")) :
                Finish("CheckPrerequisites", e)
    /\ UNCHANGED <<exists, schrootConf, fstab, backups, bootstrapped>>

\* mutant: the existence test always answers no
PathExists_Never(p) == FALSE

\* mutant: the existence test is skipped in dry-run mode
PathExists_DryRunSkips(p) == ~dry_run /\ p \in exists

\* line 139: chroot_path.exists()
PathExists(p) == p \in exists

\* step 2 (lines 136-143)
CheckPathAvailable ==
    /\ pc = "CheckPathAvailable"
    /\ IF PathExists(chroot_path)
       THEN /\ stepsRun' = Append(stepsRun, "CheckPathAvailable")
            /\ pc' = "idle"
            /\ result' = "False"
            /\ lastCmds' = <<>>
            /\ UNCHANGED <<host, chroot_name, chroot_path, skip_wine, dry_run, runs,
                           invoked, lastFailure, entry>>
            /\ UNCHANGED restVars
       ELSE Finish("CheckPathAvailable", [n |-> 0, kind |-> "ok"])
    /\ UNCHANGED <<exists, schrootConf, fstab, backups, bootstrapped>>

\* step 3 (lines 145-147, _run_debootstrap): debootstrap creates the target directory
CreateBaseSystem ==
    /\ pc = "CreateBaseSystem"
    /\ \E e \in Executions(CmdsOf("CreateBaseSystem")) :
        /\ Finish("CreateBaseSystem", e)
        /\ IF e.n = 0 THEN exists' = exists
           ELSE \E done \in Effects(e.kind) :
                    exists' = IF done THEN exists \cup {chroot_path} ELSE exists
        /\ bootstrapped' = IF e.n > 0 /\ e.kind = "ok"
                           THEN bootstrapped \cup {chroot_path} ELSE bootstrapped
    /\ UNCHANGED <<schrootConf, fstab, backups>>

\* step 4 (lines 149-151, _configure_schroot): sudo tee writes the descriptor
RegisterSchroot ==
    /\ pc = "RegisterSchroot"
    /\ \E e \in Executions(CmdsOf("RegisterSchroot")) :
        /\ Finish("RegisterSchroot", e)
        /\ IF e.n = 0 THEN schrootConf' = schrootConf
           ELSE \E done \in Effects(e.kind) :
                    schrootConf' = IF done
                                   THEN [schrootConf EXCEPT ![chroot_name] = chroot_path]
                                   ELSE schrootConf
    /\ UNCHANGED <<exists, fstab, backups, bootstrapped>>

\* step 5 (lines 153-155, _configure_fstab): backup copy when the table exists, then tee
ConfigureBindMounts ==
    /\ pc = "ConfigureBindMounts"
    /\ LET cmds == CmdsOf("ConfigureBindMounts") IN
       \E e \in Executions(cmds) :
        /\ Finish("ConfigureBindMounts", e)
        /\ IF e.n = 0 THEN UNCHANGED <<fstab, backups>>
           ELSE LET cpKind == IF cmds[1] # "sudo cp fstab backup" THEN "none"
                              ELSE IF e.n = 1 THEN e.kind ELSE "ok"
                    teeRan == cmds[e.n] = "sudo tee fstab"
                IN /\ IF cpKind = "none" THEN backups' = backups
                      ELSE \E done \in Effects(cpKind) :
                               backups' = IF done THEN backups + 1 ELSE backups
                   /\ IF teeRan
                      THEN \E done \in Effects(e.kind) :
                               fstab' = IF done THEN "written" ELSE fstab
                      ELSE fstab' = fstab
    /\ UNCHANGED <<exists, schrootConf, bootstrapped>>

\* steps 6-8 (lines 157-167): commands run inside the chroot
ConfigureLocales ==
    /\ pc = "ConfigureLocales"
    /\ \E e \in Executions(CmdsOf("ConfigureLocales")) : Finish("ConfigureLocales", e)
    /\ UNCHANGED <<exists, schrootConf, fstab, backups, bootstrapped>>

ConfigureRepositories ==
    /\ pc = "ConfigureRepositories"
    /\ \E e \in Executions(CmdsOf("ConfigureRepositories")) :
           Finish("ConfigureRepositories", e)
    /\ UNCHANGED <<exists, schrootConf, fstab, backups, bootstrapped>>

EnableMultiarch ==
    /\ pc = "EnableMultiarch"
    /\ \E e \in Executions(CmdsOf("EnableMultiarch")) : Finish("EnableMultiarch", e)
    /\ UNCHANGED <<exists, schrootConf, fstab, backups, bootstrapped>>

\* control flow when a step function is not called at all
Skip(s) ==
    /\ pc' = NextPc(s)
    /\ result' = IF NextPc(s) = "idle" THEN "True" ELSE "none"
    /\ lastCmds' = <<>>
    /\ UNCHANGED <<host, chroot_name, chroot_path, skip_wine, dry_run, runs,
                   stepsRun, invoked, lastFailure, entry>>
    /\ UNCHANGED restVars

\* step 9 (lines 169-174): _install_wine unless skip_wine
InstallWine ==
    /\ pc = "InstallWine"
    /\ IF skip_wine THEN Skip("InstallWine")
       ELSE \E e \in Executions(CmdsOf("InstallWine")) : Finish("InstallWine", e)
    /\ UNCHANGED <<exists, schrootConf, fstab, backups, bootstrapped>>

\* step 10 and the return (lines 176-195): _verify_installation unless dry_run
VerifyInstallation ==
    /\ pc = "VerifyInstallation"
    /\ IF dry_run THEN Skip("VerifyInstallation")
       ELSE \E e \in Executions(CmdsOf("VerifyInstallation")) :
                Finish("VerifyInstallation", e)
    /\ UNCHANGED <<exists, schrootConf, fstab, backups, bootstrapped>>

(***************************************************************************)
(* Path translator (utils.py): strings are sequences of characters         *)
(***************************************************************************)
Letters ==
    {"A", "B", "C", "D", "E", "F", "G", "H", "I", "J", "K", "L", "M", "N", "O", "P", "Q",
     "R", "S", "T", "U", "V", "W", "X", "Y", "Z",
     "a", "b", "c", "d", "e", "f", "g", "h", "i", "j", "k", "l", "m", "n", "o", "p", "q",
     "r", "s", "t", "u", "v", "w", "x", "y", "z"}

Slash == "/"
Backslash == "\\"

\* the literal "drive_c/"
DriveC == <<"d", "r", "i", "v", "e", "_", "c", "/">>

\* re.match(r"^[A-Za-z]:\\", s)
MatchesDrive(s) ==
    /\ Len(s) >= 3
    /\ s[1] \in Letters
    /\ s[2] = ":"
    /\ s[3] = Backslash

\* whether sub occurs in s at position i
OccursAt(s, sub, i) ==
    /\ i >= 1
    /\ i + Len(sub) - 1 <= Len(s)
    /\ SubSeq(s, i, i + Len(sub) - 1) = sub

\* `sub in s`
Contains(s, sub) == \E i \in 1..Len(s) : OccursAt(s, sub, i)

\* mutant: rsplit, what follows the rightmost occurrence of sub
SplitAfter_Rightmost(s, sub) ==
    LET i == CHOOSE k \in 1..Len(s) :
                 OccursAt(s, sub, k) /\ \A j \in (k + 1)..Len(s) : ~OccursAt(s, sub, j)
    IN SubSeq(s, i + Len(sub), Len(s))

\* s.split(sub, 1)[1]: what follows the leftmost occurrence of sub
SplitAfter(s, sub) ==
    LET i == CHOOSE k \in 1..Len(s) :
                 OccursAt(s, sub, k) /\ \A j \in 1..(k - 1) : ~OccursAt(s, sub, j)
    IN SubSeq(s, i + Len(sub), Len(s))

\* s.replace(a, b) for single characters
Replace(s, a, b) == [i \in 1..Len(s) |-> IF s[i] = a THEN b ELSE s[i]]

linux_path_to_windows(path_str) ==
    IF MatchesDrive(path_str) THEN path_str
    ELSE IF Contains(path_str, DriveC)
         THEN <<"C", ":", Backslash>> \o Replace(SplitAfter(path_str, DriveC), Slash, Backslash)
         ELSE path_str

\* the pieces the argument strings are concatenated from
Atoms == {DriveC, <<"d", "r", "i", "v", "e", "_", "c">>, <<"/">>, <<Backslash>>,
          <<"C">>, <<":">>, <<"a">>}

RECURSIVE Strs(_)
Strs(n) == IF n = 0 THEN {<<>>}
           ELSE Strs(n - 1) \cup {s \o a : s \in Strs(n - 1), a \in Atoms}

PathInputs == Strs(MaxSegs)

\* the bootstrapper at rest, whatever the host
BootIdle ==
    /\ exists = {}
    /\ schrootConf = [n \in Names |-> NoPath]
    /\ fstab = "original"
    /\ backups = 0
    /\ pc = "idle"
    /\ chroot_name = None
    /\ chroot_path = NoPath
    /\ skip_wine = FALSE
    /\ dry_run = FALSE
    /\ stepsRun = <<>>
    /\ invoked = <<>>
    /\ lastCmds = <<>>
    /\ lastFailure = NoFailure
    /\ result = "none"
    /\ runs = 0
    /\ bootstrapped = {}
    /\ entry = Snapshot(exists, schrootConf, fstab, backups, {})

\* the bootstrapper at rest on a host with every tool
BootAtRest ==
    /\ host = ToolAtoms
    /\ BootIdle

InitPath ==
    /\ BootAtRest
    /\ CmdInitAtRest
    /\ ConfigAtRest
    /\ DeskAtRest
    /\ RunAtRest
    /\ DepsAtRest
    /\ RoundAtRest
    /\ SlugAtRest
    /\ path_pc = "start"
    /\ path_in \in PathInputs
    /\ path_out = <<>>

\* a call linux_path_to_windows(path_in)
ToWindows ==
    /\ path_pc = "start"
    /\ path_out' = linux_path_to_windows(path_in)
    /\ path_pc' = "converted"
    /\ UNCHANGED <<path_in, roundVars>>
    /\ UNCHANGED notPath

NextPath == ToWindows

SpecPath == InitPath /\ [][NextPath]_vars

(***************************************************************************)
(* The inverse translation (utils.py windows_path_to_linux) and pathlib    *)
(***************************************************************************)
\* the components of s between slashes, empty ones included
Components(s) ==
    LET slashes == SelectSeq([i \in 1..Len(s) |-> i], LAMBDA i : s[i] = Slash)
        cuts == <<0>> \o slashes \o <<Len(s) + 1>>
    IN [k \in 1..(Len(cuts) - 1) |-> SubSeq(s, cuts[k] + 1, cuts[k + 1] - 1)]

\* the components joined by single slashes
RECURSIVE JoinComponents(_)
JoinComponents(cs) ==
    IF cs = <<>> THEN <<>>
    ELSE IF Len(cs) = 1 THEN cs[1]
    ELSE cs[1] \o <<Slash>> \o JoinComponents(Tail(cs))

\* the root pathlib parses off a POSIX path: "//" for exactly two leading slashes,
\* "/" for one or for three and more, none for a relative path
PathRoot(s) ==
    IF s = <<>> \/ s[1] # Slash THEN <<>>
    ELSE IF Len(s) >= 2 /\ s[2] = Slash /\ (Len(s) = 2 \/ s[3] # Slash) THEN <<Slash, Slash>>
    ELSE <<Slash>>

\* str(PurePosixPath(s)): the root, then the components that are neither empty nor "."
PurePath(s) ==
    LET kept == SelectSeq(Components(s), LAMBDA c : c # <<>> /\ c # <<".">>)
        str == PathRoot(s) \o JoinComponents(kept)
    IN IF str = <<>> THEN <<".">> ELSE str

\* posixpath.join(a, b), which the / operator of a path applies: an absolute b
\* discards a
PosixJoin(a, b) ==
    IF b # <<>> /\ b[1] = Slash THEN b
    ELSE IF a = <<>> \/ a[Len(a)] = Slash THEN a \o b
    ELSE a \o <<Slash>> \o b

Root == <<"r", "o", "o", "t">>

DriveCDir == <<"d", "r", "i", "v", "e", "_", "c">>

windows_path_to_linux(win_path, chroot, wine_prefix) ==
    LET path_part == IF MatchesDrive(win_path) THEN SubSeq(win_path, 4, Len(win_path))
                     ELSE win_path
        linux_part == Replace(path_part, Backslash, Slash)
    IN PurePath(PosixJoin(PosixJoin(PosixJoin(PosixJoin(chroot, Root), wine_prefix),
                                    DriveCDir), linux_part))

\* Config's default chroot.path and a second root
ChrootPaths == {<<"/", "s", "r", "v", "/", "d", "e", "b", "i", "a", "n", "-", "a", "m",
                  "d", "6", "4">>, <<"/", "c">>}

\* the default of the wine_prefix parameter, the default of Config.wine_prefix, and
\* a prefix directory named after the drive
WinePrefixes == {<<".", "w", "i", "n", "e">>, <<"/", "r", "o", "o", "t", "/", ".", "w", "i", "n", "e">>, DriveCDir}

\* relative remainders
Remainders == {r \in PathInputs : r # <<>> /\ r[1] # Slash}

\* p = <chrootPath>/root/<winePrefix>/drive_c/<r>
WellFormed(chroot, wine_prefix, r) ==
    chroot \o <<Slash>> \o Root \o <<Slash>> \o wine_prefix \o <<Slash>> \o DriveC \o r

InitRound ==
    /\ BootAtRest
    /\ CmdInitAtRest
    /\ ConfigAtRest
    /\ DeskAtRest
    /\ RunAtRest
    /\ DepsAtRest
    /\ SlugAtRest
    /\ rt_chroot \in ChrootPaths
    /\ rt_prefix \in WinePrefixes
    /\ path_pc = "start"
    /\ path_in \in {WellFormed(rt_chroot, rt_prefix, r) : r \in Remainders}
    /\ path_out = <<>>
    /\ path_back = <<>>

\* a call windows_path_to_linux(path_out, rt_chroot, rt_prefix)
ToLinux ==
    /\ path_pc = "converted"
    /\ path_back' = windows_path_to_linux(path_out, rt_chroot, rt_prefix)
    /\ path_pc' = "restored"
    /\ UNCHANGED <<path_in, path_out, rt_chroot, rt_prefix>>
    /\ UNCHANGED notPath

NextRound ==
    \/ ToWindows
    \/ ToLinux

SpecRound == InitRound /\ [][NextRound]_vars

Next ==
    \/ CallInitialize
    \/ CheckPrerequisites
    \/ CheckPathAvailable
    \/ CreateBaseSystem
    \/ RegisterSchroot
    \/ ConfigureBindMounts
    \/ ConfigureLocales
    \/ ConfigureRepositories
    \/ EnableMultiarch
    \/ InstallWine
    \/ VerifyInstallation

Spec == Init /\ [][Next]_vars

(***************************************************************************)
(* slugify (utils.py)                                                      *)
(***************************************************************************)
\* the elements of a sequence
Range(q) == {q[i] : i \in 1..Len(q)}

Upper == <<"A", "B", "C", "D", "E", "F", "G", "H", "I", "J", "K", "L", "M", "N", "O", "P",
           "Q", "R", "S", "T", "U", "V", "W", "X", "Y", "Z">>

Lower == <<"a", "b", "c", "d", "e", "f", "g", "h", "i", "j", "k", "l", "m", "n", "o", "p",
           "q", "r", "s", "t", "u", "v", "w", "x", "y", "z">>

Digits == {"0", "1", "2", "3", "4", "5", "6", "7", "8", "9"}

Hyphen == "-"

\* the regex class [a-z0-9]
AlNum == Range(Lower) \cup Digits

\* text.lower()
ToLower(s) ==
    [i \in 1..Len(s) |->
        IF \E k \in 1..Len(Upper) : Upper[k] = s[i]
        THEN Lower[CHOOSE k \in 1..Len(Upper) : Upper[k] = s[i]]
        ELSE s[i]]

\* s without its leading characters outside [a-z0-9]
RECURSIVE SkipRun(_)
SkipRun(s) ==
    IF s = <<>> \/ Head(s) \in AlNum THEN s ELSE SkipRun(Tail(s))

\* re.sub(r"[^a-z0-9]+", "-", s): every maximal run outside [a-z0-9] becomes one hyphen
RECURSIVE CollapseRuns(_)
CollapseRuns(s) ==
    IF s = <<>> THEN <<>>
    ELSE IF Head(s) \in AlNum THEN <<Head(s)>> \o CollapseRuns(Tail(s))
    ELSE <<Hyphen>> \o CollapseRuns(SkipRun(s))

RECURSIVE LStrip(_, _)
LStrip(s, c) == IF s # <<>> /\ Head(s) = c THEN LStrip(Tail(s), c) ELSE s

RECURSIVE RStrip(_, _)
RStrip(s, c) ==
    IF s # <<>> /\ s[Len(s)] = c THEN RStrip(SubSeq(s, 1, Len(s) - 1), c) ELSE s

\* mutant: lstrip, the trailing characters stay
Strip_LeftOnly(s, c) == LStrip(s, c)

\* s.strip(c)
Strip(s, c) == RStrip(LStrip(s, c), c)

slugify(text) == Strip(CollapseRuns(ToLower(text)), Hyphen)

\* the characters the arguments are made of: upper and lower case, a digit, the
\* hyphen, white space and punctuation
SlugChars == {"A", "b", "3", Hyphen, " ", "!"}

RECURSIVE Texts(_)
Texts(n) == IF n = 0 THEN {<<>>}
            ELSE Texts(n - 1) \cup {s \o <<c>> : s \in Texts(n - 1), c \in SlugChars}

SlugInputs == Texts(MaxSlugLen)

InitSlug ==
    /\ BootAtRest
    /\ CmdInitAtRest
    /\ ConfigAtRest
    /\ DeskAtRest
    /\ RunAtRest
    /\ DepsAtRest
    /\ PathAtRest
    /\ RoundAtRest
    /\ slug_pc = "start"
    /\ slug_in \in SlugInputs
    /\ slug_out = <<>>
    /\ slug_again = <<>>

\* a call slugify(slug_in)
Slugify ==
    /\ slug_pc = "start"
    /\ slug_out' = slugify(slug_in)
    /\ slug_pc' = "slugged"
    /\ UNCHANGED <<slug_in, slug_again>>
    /\ UNCHANGED notSlug

\* a call slugify(slug_out), on the result of the first
SlugifyAgain ==
    /\ slug_pc = "slugged"
    /\ slug_again' = slugify(slug_out)
    /\ slug_pc' = "reslugged"
    /\ UNCHANGED <<slug_in, slug_out>>
    /\ UNCHANGED notSlug

NextSlug ==
    \/ Slugify
    \/ SlugifyAgain

SpecSlug == InitSlug /\ [][NextSlug]_vars

(***************************************************************************)
(* check_system_dependencies (utils.py)                                    *)
(***************************************************************************)
QemuUserStatic == "qemu-user-static"

\* the keys of the `required` dict, in insertion order
required_deps == <<"schroot", "debootstrap", QemuUserStatic, "wrestool", "icotool">>

\* the command names shutil.which is asked for
DepCommands == {"schroot", "debootstrap", QemuOnPath, QemuUserStatic, "wrestool", "icotool"}

\* mutant: the emulation layer looked up under the name qemu-x86_64-static only
DepMissing_OneName(h, cmd) ==
    IF cmd = QemuUserStatic
    THEN ~check_command_exists(h, QemuOnPath)
    ELSE ~check_command_exists(h, cmd)

\* the branch of the loop that appends cmd to `missing`
DepMissing(h, cmd) ==
    IF cmd = QemuUserStatic
    THEN ~(check_command_exists(h, QemuOnPath) \/ check_command_exists(h, QemuUserStatic))
    ELSE ~check_command_exists(h, cmd)

check_system_dependencies(h) ==
    LET missing == SelectSeq(required_deps, LAMBDA cmd : DepMissing(h, cmd))
    IN [ok |-> Len(missing) = 0, missing |-> missing]

InitDeps ==
    /\ host \in SUBSET DepCommands
    /\ BootIdle
    /\ CmdInitAtRest
    /\ ConfigAtRest
    /\ DeskAtRest
    /\ RunAtRest
    /\ PathAtRest
    /\ RoundAtRest
    /\ SlugAtRest
    /\ DepsAtRest

\* a call check_system_dependencies(verbose)
CheckDependencies ==
    /\ dep_pc = "start"
    /\ \E verbose \in BOOLEAN :
           dep_log' = IF verbose THEN required_deps ELSE <<>>
    /\ dep_result' = check_system_dependencies(host)
    /\ dep_pc' = "checked"
    /\ UNCHANGED notDeps

NextDeps == CheckDependencies

SpecDeps == InitDeps /\ [][NextDeps]_vars

(***************************************************************************)
(* The run command (cli.py cmd_run, runner.py WineRunner)                  *)
(***************************************************************************)
\* C:\Windows\notepad.exe, the path the closing message of initialize suggests
WinExe ==
    <<"C", ":", "\\", "W", "i", "n", "d", "o", "w", "s", "\\", "n", "o", "t", "e", "p",
      "a", "d", ".", "e", "x", "e">>

\* an executable under the wine prefix of the chroot, from the host's perspective
LinuxExe ==
    <<"/", "s", "r", "v", "/", "d", "e", "b", "i", "a", "n", "-", "a", "m", "d", "6",
      "4", "/", "r", "o", "o", "t", "/", ".", "w", "i", "n", "e", "/", "d", "r", "i",
      "v", "e", "_", "c", "/", "a", ".", "e", "x", "e">>

\* an executable outside any drive_c
HomeExe == <<"/", "h", "o", "m", "e", "/", "u", "/", "a", ".", "e", "x", "e">>

ExeArgs == {WinExe, LinuxExe, HomeExe}

\* what the host has at a path
FileKinds == {"absent", "file", "dir", "denied"}

RunCommands == {"sudo", "pkexec", "schroot", "xhost"}

\* the exit codes of the wine process
ExitCodes == {0, 1, 2, 130}

\* validate_exe_path: exists() and is_file(), a PermissionError taken as valid
validate_exe_path(fs, exe_path) ==
    CASE fs[exe_path] = "denied" -> TRUE
      [] fs[exe_path] = "absent" -> FALSE
      [] fs[exe_path] = "dir" -> FALSE
      [] OTHER -> TRUE

privilege_cmd(cfg) == IF cfg.use_pkexec THEN "pkexec" ELSE "sudo"

\* check_wine_installation: wine --version through the privilege tool and schroot
\* returned 0 with output; every exception is caught and gives False
check_wine_installation(h, cfg, installed) ==
    /\ privilege_cmd(cfg) \in h
    /\ "schroot" \in h
    /\ installed

\* the path WineRunner.run hands to wine: translated when exe_path is a Path or
\* contains a slash
RunWinPath(exe_path, is_path) ==
    IF is_path \/ Contains(exe_path, <<Slash>>) THEN linux_path_to_windows(exe_path)
    ELSE exe_path

\* the command line WineRunner.run builds
RunCmd(cfg, exe_path, is_path) ==
    [priv |-> privilege_cmd(cfg), chroot |-> ConfigChrootName,
     env |-> cfg.x11_forwarding, exe |-> RunWinPath(exe_path, is_path)]

\* subprocess.run(["xhost", "+local:"], check=False)
XhostOutcomes(h) ==
    IF "xhost" \in h THEN {"ok", "nonzero", "perm", "oserror"} ELSE {"notfound"}

\* subprocess.run(cmd, check=False) and subprocess.Popen(cmd): the process starts,
\* or the call raises
LaunchOutcomes(h, priv) ==
    IF priv \in h THEN {"started", "perm", "oserror"} ELSE {"notfound"}

\* mutant: show_terminal alone does not make the call synchronous
Synchronous_WaitOnly(wait, show_terminal) == wait

\* the condition of the branch that calls subprocess.run
Synchronous(wait, show_terminal) == wait \/ show_terminal

Returned(code) == [kind |-> "return", code |-> code]

\* SystemExit(code)
Exited(code) == [kind |-> "exit", code |-> code]

\* an exception no handler of cmd_run or WineRunner.run catches
Raised == [kind |-> "raise", code |-> 0]

\* KeyboardInterrupt, which no handler of cmd_run or WineRunner.run catches
Interrupted == [kind |-> "interrupt", code |-> 0]

\* variant: every return value outside the taxonomy is reported as a general failure
main_exit_Clamped(ret) ==
    CASE ret.kind = "interrupt" -> 130
      [] ret.kind = "raise" -> 1
      [] ret.code \in {0, 1} -> ret.code
      [] OTHER -> 1

\* the exit status of sys.exit(main()): the handler's return value, 130 for
\* KeyboardInterrupt, 1 for an Exception, and the code of a SystemExit, which
\* `except Exception` lets through
main_exit(ret) ==
    CASE ret.kind = "interrupt" -> 130
      [] ret.kind = "raise" -> 1
      [] OTHER -> ret.code

InitRun ==
    /\ host \in SUBSET RunCommands
    /\ BootIdle
    /\ CmdInitAtRest
    /\ ConfigAtRest
    /\ DeskAtRest
    /\ PathAtRest
    /\ RoundAtRest
    /\ SlugAtRest
    /\ DepsAtRest
    /\ run_pc = "start"
    /\ run_fs \in [ExeArgs -> FileKinds]
    /\ run_cfg \in [use_pkexec : BOOLEAN, x11_forwarding : BOOLEAN]
    /\ wine_installed \in BOOLEAN
    /\ run_args = [exe |-> <<>>, wait |-> FALSE, terminal |-> FALSE]
    /\ run_cmd = NoCmd
    /\ run_mode = "none"
    /\ run_ret = NoReturn
    /\ child = NoChild
    /\ main_ret = NoExit

\* cmd_run up to the end of validate_exe_path
CmdRun ==
    /\ run_pc = "start"
    /\ \E exe \in ExeArgs, wait \in BOOLEAN, terminal \in BOOLEAN :
           /\ run_args' = [exe |-> exe, wait |-> wait, terminal |-> terminal]
           /\ IF validate_exe_path(run_fs, PurePath(exe))
              THEN /\ run_pc' = "check_wine"
                   /\ run_ret' = run_ret
              ELSE /\ run_pc' = "done"
                   /\ run_ret' = Returned(1)
    /\ UNCHANGED <<run_fs, run_cfg, wine_installed, run_cmd, run_mode, child, main_ret>>
    /\ UNCHANGED notRun

\* cmd_run: runner.check_wine_installation()
CheckWineInstallation ==
    /\ run_pc = "check_wine"
    /\ IF check_wine_installation(host, run_cfg, wine_installed)
       THEN /\ run_pc' = "run"
            /\ run_ret' = run_ret
       ELSE /\ run_pc' = "done"
            /\ run_ret' = Returned(1)
    /\ UNCHANGED <<run_fs, run_cfg, wine_installed, run_args, run_cmd, run_mode, child,
                   main_ret>>
    /\ UNCHANGED notRun

\* WineRunner.run(exe_path, wait=..., show_terminal=...), called by cmd_run with a Path
Run ==
    /\ run_pc = "run"
    /\ run_pc' = "done"
    /\ run_cmd' = RunCmd(run_cfg, PurePath(run_args.exe), TRUE)
    /\ \E x \in XhostOutcomes(host), k \in LaunchOutcomes(host, privilege_cmd(run_cfg)),
          code \in ExitCodes, interrupt \in BOOLEAN :
           IF run_cfg.x11_forwarding /\ x \in {"perm", "oserror"}
           THEN /\ run_ret' = Raised
                /\ UNCHANGED <<run_mode, child>>
           ELSE CASE k = "notfound" ->
                       /\ run_ret' = Exited(1)
                       /\ UNCHANGED <<run_mode, child>>
                  [] k \in {"perm", "oserror"} ->
                       /\ run_ret' = Raised
                       /\ UNCHANGED <<run_mode, child>>
                  [] Synchronous(run_args.wait, run_args.terminal) /\ interrupt ->
                       \* Ctrl-C while subprocess.run waits: it kills the process
                       \* and raises KeyboardInterrupt
                       /\ run_ret' = Interrupted
                       /\ child' = [state |-> "killed", code |-> 0]
                       /\ UNCHANGED run_mode
                  [] OTHER ->
                       IF Synchronous(run_args.wait, run_args.terminal)
                       THEN /\ run_mode' = "sync"
                            /\ child' = [state |-> "exited", code |-> code]
                            /\ run_ret' = Returned(code)
                       ELSE /\ run_mode' = "detached"
                            /\ child' = [state |-> "running", code |-> 0]
                            /\ run_ret' = Returned(0)
    /\ UNCHANGED <<run_fs, run_cfg, wine_installed, run_args, main_ret>>
    /\ UNCHANGED notRun

\* main, after the handler: `return handler(args, config)` and its except clauses
MainReturns ==
    /\ run_pc = "done"
    /\ ~main_ret.done
    /\ main_ret' = [done |-> TRUE, code |-> main_exit(run_ret)]
    /\ UNCHANGED <<run_pc, run_fs, run_cfg, wine_installed, run_args, run_cmd, run_mode,
                   run_ret, child>>
    /\ UNCHANGED notRun

\* the detached wine process ends, after run has returned
ChildExits ==
    /\ child.state = "running"
    /\ \E code \in ExitCodes : child' = [state |-> "exited", code |-> code]
    /\ UNCHANGED <<run_pc, run_fs, run_cfg, wine_installed, run_args, run_cmd, run_mode,
                   run_ret, main_ret>>
    /\ UNCHANGED notRun

NextRun ==
    \/ CmdRun
    \/ CheckWineInstallation
    \/ Run
    \/ MainReturns
    \/ ChildExits

SpecRun == InitRun /\ [][NextRun]_vars

(***************************************************************************)
(* Launchers and icons (desktop.py DesktopManager, icons.py extract_icon)  *)
(*                                                                         *)
(* The configuration is the default one (privilege tool sudo, chroot name  *)
(* debian-amd64, directories under ~/.local/share).  Creating directories, *)
(* copying the icon, writing the launcher and unlinking it are taken to    *)
(* succeed.                                                                *)
(***************************************************************************)
\* Config.applications_dir and Config.icon_dir for the home directory /home/u
ApplicationsDir ==
    <<"/", "h", "o", "m", "e", "/", "u", "/", ".", "l", "o", "c", "a", "l", "/", "s",
      "h", "a", "r", "e", "/", "a", "p", "p", "l", "i", "c", "a", "t", "i", "o", "n",
      "s">>

IconDir ==
    <<"/", "h", "o", "m", "e", "/", "u", "/", ".", "l", "o", "c", "a", "l", "/", "s",
      "h", "a", "r", "e", "/", "i", "c", "o", "n", "s">>

\* Config.chroot_name, as characters
ChrootNameChars == <<"d", "e", "b", "i", "a", "n", "-", "a", "m", "d", "6", "4">>

DotDesktop == <<".", "d", "e", "s", "k", "t", "o", "p">>

\* the exe path of the end-to-end example, and one outside any drive_c
ProgramFilesExe ==
    <<"/", "s", "r", "v", "/", "d", "e", "b", "i", "a", "n", "-", "a", "m", "d", "6",
      "4", "/", "r", "o", "o", "t", "/", ".", "w", "i", "n", "e", "/", "d", "r", "i",
      "v", "e", "_", "c", "/", "P", "r", "o", "g", "r", "a", "m", " ", "F", "i", "l",
      "e", "s", "/", "A", "p", "p", "/", "A", "p", "p", ".", "e", "x", "e">>

DeskExes == {ProgramFilesExe, HomeExe}

\* the application names: that of the end-to-end example, a second one, and a
\* third that differs from the first in case and punctuation only
MyApp == <<"M", "y", " ", "A", "p", "p", "!">>

Zed == <<"Z", "e", "d">>

MyAppLower == <<"m", "y", " ", "a", "p", "p">>

AppNames == {MyApp, Zed, MyAppLower}

\* desktop_filename: None, or a custom name without the suffix
DesktopFilenames == {<<>>, <<"c", "u", "s", "t", "o", "m">>}

\* the create_launcher calls explored: for the exe under drive_c and the first
\* two names, with and without icon extraction under the default file name
\* and without it under a custom one; the exe outside drive_c and the third
\* name once each, with the default file name and no icon
LauncherCalls ==
    {c \in [exe : DeskExes, name : AppNames, icon : BOOLEAN, filename : DesktopFilenames] :
        /\ c.filename # <<>> => ~c.icon
        /\ c.exe = HomeExe => c.name = Zed /\ c.filename = <<>> /\ ~c.icon
        /\ c.name = MyAppLower => ~c.icon /\ c.filename = <<>>}

DeskCommands == {"sudo", "wrestool", "icotool"}

StartsWith(s, prefix) == OccursAt(s, prefix, 1)

\* s.endswith(suffix)
EndsWith(s, suffix) == OccursAt(s, suffix, Len(s) - Len(suffix) + 1)

\* mutant: a custom filename is used as given
DesktopFilename_AsGiven(app_name, desktop_filename) ==
    IF desktop_filename = <<>> THEN slugify(app_name) \o DotDesktop
    ELSE desktop_filename

\* the file name create_launcher settles on
DesktopFilename(app_name, desktop_filename) ==
    IF desktop_filename = <<>> THEN slugify(app_name) \o DotDesktop
    ELSE IF ~EndsWith(desktop_filename, DotDesktop) THEN desktop_filename \o DotDesktop
    ELSE desktop_filename

\* desktop_dir / desktop_filename
DesktopFile(app_name, desktop_filename) ==
    PurePath(PosixJoin(ApplicationsDir, DesktopFilename(app_name, desktop_filename)))

\* Path(s).name
PathName(s) ==
    LET kept == SelectSeq(Components(s), LAMBDA c : c # <<>> /\ c # <<".">>)
    IN IF kept = <<>> THEN <<>> ELSE kept[Len(kept)]

ExecKey == <<"E", "x", "e", "c", "=">>

IconKey == <<"I", "c", "o", "n", "=">>

\* mutant: the path goes into the Exec line without quotes
ExecLine_Unquoted(win_exe_path) ==
    ExecKey \o <<"s", "u", "d", "o">> \o <<" ", "s", "c", "h", "r", "o", "o", "t", " ", "-", "c",
                                " ">> \o ChrootNameChars
        \o <<" ", "-", "-", " ", "w", "i", "n", "e", " ">> \o win_exe_path

\* exec_line
ExecLine(win_exe_path) ==
    ExecKey \o <<"s", "u", "d", "o">> \o <<" ", "s", "c", "h", "r", "o", "o", "t", " ", "-", "c",
                                " ">> \o ChrootNameChars
        \o <<" ", "-", "-", " ", "w", "i", "n", "e", " ", "\"">> \o win_exe_path \o <<"\"">>

\* get_wine_icon()
WineIcon == <<"w", "i", "n", "e">>

\* mutant: no Icon line without an extracted icon
IconLines_OnlyExtracted(icon) ==
    IF icon.kind = "path" THEN <<IconKey \o icon.path>> ELSE <<>>

\* the Icon line appended after the standard fields
IconLines(icon) ==
    IF icon.kind = "path" THEN <<IconKey \o icon.path>> ELSE <<IconKey \o WineIcon>>

\* the lines of the launcher
DesktopLines(app_name, win_exe_path, icon) ==
    <<<<"[", "D", "e", "s", "k", "t", "o", "p", " ", "E", "n", "t", "r", "y", "]">>,
      <<"N", "a", "m", "e", "=">> \o app_name,
      <<"C", "o", "m", "m", "e", "n", "t", "=", "R", "u", "n", " ">> \o app_name
          \o <<" ", "i", "n", "s", "i", "d", "e", " ", "t", "h", "e", " ">> \o ChrootNameChars \o <<" ", "c", "h", "r", "o", "o", "t">>,
      ExecLine(win_exe_path),
      <<"T", "y", "p", "e", "=", "A", "p", "p", "l", "i", "c", "a", "t", "i", "o", "n">>,
      <<"C", "a", "t", "e", "g", "o", "r", "i", "e", "s", "=", "W", "i", "n", "e", ";",
        "W", "i", "n", "d", "o", "w", "s", "A", "p", "p", "s", ";">>,
      <<"S", "t", "a", "r", "t", "u", "p", "N", "o", "t", "i", "f", "y", "=", "t", "r",
        "u", "e">>,
      <<"T", "e", "r", "m", "i", "n", "a", "l", "=", "f", "a", "l", "s", "e">>,
      <<"S", "t", "a", "r", "t", "u", "p", "W", "M", "C", "l", "a", "s", "s", "=">>
          \o PathName(win_exe_path)>>
        \o IconLines(icon)

\* final_icon of extract_icon, and the PNG icotool writes for an .ico
FinalIcon(icon_name) == PurePath(PosixJoin(IconDir, icon_name \o <<".", "p", "n", "g">>))

PngName(icon_name) == icon_name \o <<"_", "1", "_", "3", "2", "x", "3", "2", "x", "3", "2", ".", "p", "n", "g">>

\* the characters of names and file names, in code point order
CharOrder ==
    <<" ", "!", "-", ".", "/", "0", "1", "2", "3", "4", "5", "6", "7", "8", "9">> \o Upper
        \o <<"_">> \o Lower

CharRank(c) == CHOOSE i \in 1..Len(CharOrder) : CharOrder[i] = c

\* a < b for strings
RECURSIVE StrLess(_, _)
StrLess(a, b) ==
    IF a = <<>> THEN b # <<>>
    ELSE IF b = <<>> THEN FALSE
    ELSE IF Head(a) = Head(b) THEN StrLess(Tail(a), Tail(b))
    ELSE CharRank(Head(a)) < CharRank(Head(b))

\* sorted(names)[-1]
LastSorted(names) == CHOOSE n \in names : \A m \in names \ {n} : StrLess(m, n)

\* f without the key k
Without(f, k) == [x \in DOMAIN f \ {k} |-> f[x]]

\* subprocess.run(["sudo", "wrestool", ...], check=True, text=True): exit 0 with
\* the .ico written ("ok") or with nothing written ("empty"), or an exception
WrestoolOutcomes(h) ==
    IF "sudo" \in h THEN {"ok", "empty", "nonzero", "perm", "oserror", "unicode"}
    ELSE {"notfound"}

\* subprocess.run(["icotool", ...], check=True, text=True)
IcotoolOutcomes == {"ok", "nonzero", "perm", "oserror", "unicode"}

\* the values of icon_path
IconNone == [kind |-> "None", path |-> <<>>]

IconPath(path) == [kind |-> "path", path |-> path]

IconRaised == [kind |-> "raise", path |-> <<>>]

LauncherReturned(file) == [kind |-> "return", file |-> file]

\* SystemExit(1)
LauncherExited == [kind |-> "exit", file |-> <<>>]

LauncherRaised == [kind |-> "raise", file |-> <<>>]

InitDesk ==
    /\ host \in SUBSET DeskCommands
    /\ BootIdle
    /\ CmdInitAtRest
    /\ ConfigAtRest
    /\ PathAtRest
    /\ RoundAtRest
    /\ SlugAtRest
    /\ DepsAtRest
    /\ RunAtRest
    /\ DeskAtRest

\* create_launcher up to the first external command: validation, file name, and
\* the tool checks of extract_icon when an icon is requested
CreateLauncher ==
    /\ desk_pc = "idle"
    /\ desk_calls < MaxCalls
    /\ desk_calls' = desk_calls + 1
    /\ produced' = {}
    /\ entry_icons' = icon_files
    /\ remove_ret' = NoRemove
    /\ listed' = NoListing
    /\ \E call \in LauncherCalls, kind \in FileKinds :
           LET exe == call.exe
               name == call.name
               icon == call.icon
               filename == call.filename
               exe_path == PurePath(exe)
               valid == validate_exe_path([p \in {exe_path} |-> kind], exe_path)
               tools == "wrestool" \in host /\ "icotool" \in host
           IN /\ desk_call' = [exe |-> exe, name |-> name, icon |-> icon,
                               filename |-> filename]
              /\ desk_ret' = IF valid THEN NoLauncher ELSE LauncherExited
              /\ icon_ret' = IF valid /\ icon /\ ~tools THEN IconNone ELSE NoIcon
              /\ icon_fail' = IF valid /\ icon /\ ~tools THEN "tool_missing" ELSE "none"
              /\ desk_pc' = IF ~valid THEN "idle"
                            ELSE IF icon /\ tools THEN "wrestool"
                            ELSE "write"
    /\ UNCHANGED <<launchers, icon_files, tmp_ico, tmp_png_dir, live>>
    /\ UNCHANGED notDesk

\* extract_icon, step 1: wrestool under sudo, then the test that tmp_ico exists
Wrestool ==
    /\ desk_pc = "wrestool"
    /\ LET icon_name == slugify(desk_call.name)
       IN \E k \in WrestoolOutcomes(host) :
           CASE k = "ok" ->
                  /\ tmp_ico' = (icon_name :> desk_calls) @@ tmp_ico
                  /\ desk_pc' = "icotool"
                  /\ UNCHANGED <<desk_ret, icon_ret, icon_fail>>
             [] k = "empty" /\ icon_name \in DOMAIN tmp_ico ->
                  /\ desk_pc' = "icotool"
                  /\ UNCHANGED <<tmp_ico, desk_ret, icon_ret, icon_fail>>
             [] k = "empty" /\ icon_name \notin DOMAIN tmp_ico ->
                  /\ icon_ret' = IconNone
                  /\ icon_fail' = "no_ico"
                  /\ desk_pc' = "write"
                  /\ UNCHANGED <<tmp_ico, desk_ret>>
             [] k = "nonzero" ->
                  /\ icon_ret' = IconNone
                  /\ icon_fail' = "wrestool_nonzero"
                  /\ desk_pc' = "write"
                  /\ UNCHANGED <<tmp_ico, desk_ret>>
             [] OTHER ->
                  /\ icon_ret' = IconRaised
                  /\ icon_fail' = IF k = "notfound" THEN "sudo_missing" ELSE k
                  /\ desk_ret' = LauncherRaised
                  /\ desk_pc' = "idle"
                  /\ UNCHANGED tmp_ico
    /\ UNCHANGED <<desk_calls, desk_call, launchers, icon_files, tmp_png_dir, produced,
                   entry_icons, live, remove_ret, listed>>
    /\ UNCHANGED notDesk

\* extract_icon, step 2: icotool converts tmp_ico into PNG files in tmp_png_dir;
\* once started it may write a file before it fails
Icotool ==
    /\ desk_pc = "icotool"
    /\ LET icon_name == slugify(desk_call.name)
       IN \E k \in IcotoolOutcomes, written \in BOOLEAN :
           /\ written => k \in {"ok", "nonzero", "unicode"}
           /\ produced' = IF written THEN {PngName(icon_name)} ELSE {}
           /\ tmp_png_dir' = IF written
                             THEN (PngName(icon_name) :> tmp_ico[icon_name]) @@ tmp_png_dir
                             ELSE tmp_png_dir
           /\ CASE k = "ok" ->
                  /\ icon_fail' = IF written THEN "none" ELSE "no_png"
                  /\ desk_pc' = "select"
                  /\ UNCHANGED <<desk_ret, icon_ret>>
             [] k = "nonzero" ->
                  /\ icon_ret' = IconNone
                  /\ icon_fail' = "icotool_nonzero"
                  /\ desk_pc' = "write"
                  /\ UNCHANGED desk_ret
             [] OTHER ->
                  /\ icon_ret' = IconRaised
                  /\ icon_fail' = k
                  /\ desk_ret' = LauncherRaised
                  /\ desk_pc' = "idle"
    /\ UNCHANGED <<desk_calls, desk_call, launchers, icon_files, tmp_ico, entry_icons,
                   live, remove_ret, listed>>
    /\ UNCHANGED notDesk

\* extract_icon, step 3 to the end: the last PNG of the sorted directory listing
\* is copied to the icon directory; the cleanup removes the temporary files or
\* gives up at the first one it cannot remove
SelectIcon ==
    /\ desk_pc = "select"
    /\ desk_pc' = "write"
    /\ LET icon_name == slugify(desk_call.name)
           pngs == DOMAIN tmp_png_dir
       IN IF pngs = {}
          THEN /\ icon_ret' = IconNone
               /\ UNCHANGED <<icon_files, tmp_ico, tmp_png_dir>>
          ELSE LET chosen_png == LastSorted(pngs)
                   final_icon == FinalIcon(icon_name)
               IN /\ icon_files' = (final_icon :> tmp_png_dir[chosen_png]) @@ icon_files
                  /\ icon_ret' = IconPath(final_icon)
                  /\ \E cleaned \in BOOLEAN :
                         IF cleaned
                         THEN /\ tmp_ico' = Without(tmp_ico, icon_name)
                              /\ tmp_png_dir' = <<>>
                         ELSE UNCHANGED <<tmp_ico, tmp_png_dir>>
    /\ UNCHANGED <<desk_calls, desk_call, desk_ret, launchers, produced, icon_fail,
                   entry_icons, live, remove_ret, listed>>
    /\ UNCHANGED notDesk

\* create_launcher from the building of the lines to its return
WriteLauncher ==
    /\ desk_pc = "write"
    /\ LET desktop_file == DesktopFile(desk_call.name, desk_call.filename)
           win_exe_path == linux_path_to_windows(PurePath(desk_call.exe))
       IN /\ launchers' = (desktop_file :> DesktopLines(desk_call.name, win_exe_path, icon_ret))
                              @@ launchers
          /\ desk_ret' = LauncherReturned(desktop_file)
          /\ live' = (desktop_file :> [name |-> desk_call.name,
                                        filename |-> desk_call.filename]) @@ live
    /\ desk_pc' = "idle"
    /\ UNCHANGED <<desk_calls, desk_call, icon_ret, icon_files, tmp_ico, tmp_png_dir,
                   produced, icon_fail, entry_icons, remove_ret, listed>>
    /\ UNCHANGED notDesk

\* the lines of a launcher that begin with a key
LinesWith(lines, key) == SelectSeq(lines, LAMBDA l : StartsWith(l, key))

NameKey == <<"N", "a", "m", "e", "=">>

\* the paths desktop_dir.glob("*.desktop") yields among the files written
IsDesktopGlob(f) ==
    /\ StartsWith(f, ApplicationsDir \o <<Slash>>)
    /\ EndsWith(f, DotDesktop)
    /\ ~Contains(SubSeq(f, Len(ApplicationsDir) + 2, Len(f)), <<Slash>>)

\* "schroot" in content and "wine" in content.lower()
WineRelated(lines) ==
    /\ \E i \in 1..Len(lines) : Contains(lines[i], <<"s", "c", "h", "r", "o", "o", "t">>)
    /\ \E i \in 1..Len(lines) : Contains(ToLower(lines[i]), <<"w", "i", "n", "e">>)

\* line.split("=", 1)[1].strip() for the first line that starts with Name=
NameOf(lines) ==
    LET line == LinesWith(lines, NameKey)[1]
    IN Strip(SubSeq(line, Len(NameKey) + 1, Len(line)), " ")

\* wine_desktops: a (name, path) pair for every Wine-related launcher with a Name line
Entries(files) ==
    {<<NameOf(files[f]), f>> :
        f \in {g \in DOMAIN files : /\ IsDesktopGlob(g)
                                    /\ WineRelated(files[g])
                                    /\ LinesWith(files[g], NameKey) # <<>>}}

\* (name, path) tuples compare by name, then by path
PairLess(a, b) == StrLess(a[1], b[1]) \/ (a[1] = b[1] /\ StrLess(a[2], b[2]))

\* sorted(pairs)
RECURSIVE SortedSeq(_)
SortedSeq(pairs) ==
    IF pairs = {} THEN <<>>
    ELSE LET least == CHOOSE x \in pairs : \A y \in pairs \ {x} : PairLess(x, y)
         IN <<least>> \o SortedSeq(pairs \ {least})

\* list_desktop_files(): empty when nothing was ever written to the directory
list_desktop_files(files) == SortedSeq(Entries(files))

\* variant: remove_launcher reports success whether or not the file was there
remove_launcher_AlwaysTrue(files, desktop_file) == TRUE

\* the value remove_launcher returns: True after unlinking a file that exists,
\* False when there is none
remove_launcher(files, desktop_file) == desktop_file \in DOMAIN files

\* the launcher paths the calls explored can write
LauncherFiles == {DesktopFile(c.name, c.filename) : c \in LauncherCalls}

\* remove_launcher(desktop_file): the file is unlinked when it exists
RemoveLauncher ==
    /\ desk_pc = "idle"
    /\ \E f \in LauncherFiles :
           /\ remove_ret' = [file |-> f, existed |-> f \in DOMAIN launchers,
                             value |-> remove_launcher(launchers, f)]
           /\ launchers' = IF f \in DOMAIN launchers THEN Without(launchers, f) ELSE launchers
           /\ live' = IF f \in DOMAIN live THEN Without(live, f) ELSE live
    /\ listed' = NoListing
    /\ desk_call' = NoCall
    /\ desk_ret' = NoLauncher
    /\ icon_ret' = NoIcon
    /\ icon_fail' = "none"
    /\ produced' = {}
    /\ entry_icons' = icon_files
    /\ UNCHANGED <<desk_pc, desk_calls, icon_files, tmp_ico, tmp_png_dir>>
    /\ UNCHANGED notDesk

\* list_desktop_files(), as cmd_list --launchers calls it
ListDesktopFiles ==
    /\ desk_pc = "idle"
    /\ ~listed.done
    /\ listed' = [done |-> TRUE, list |-> list_desktop_files(launchers)]
    /\ desk_call' = NoCall
    /\ desk_ret' = NoLauncher
    /\ icon_ret' = NoIcon
    /\ icon_fail' = "none"
    /\ produced' = {}
    /\ entry_icons' = icon_files
    /\ UNCHANGED <<desk_pc, desk_calls, launchers, icon_files, tmp_ico, tmp_png_dir, live,
                   remove_ret>>
    /\ UNCHANGED notDesk

NextDesk ==
    \/ CreateLauncher
    \/ Wrestool
    \/ Icotool
    \/ SelectIcon
    \/ WriteLauncher
    \/ RemoveLauncher
    \/ ListDesktopFiles

SpecDesk == InitDesk /\ [][NextDesk]_vars

(***************************************************************************)
(* Config (config.py) and cmd_config --show (cli.py)                       *)
(***************************************************************************)
\* config_path = None
NoConfigPath == "None"

\* the locations searched when no explicit path is given, in order
DEFAULT_CONFIG_PATHS == <<"~/.config/wine-chroot.toml", "~/.wine-chroot.toml", "wine-chroot.toml">>

\* a path given with --config that is none of the default locations
ExplicitConfig == "custom.toml"

ConfigLocations == {ExplicitConfig} \cup Range(DEFAULT_CONFIG_PATHS)

\* the config_path arguments: None, a path of its own, or one of the defaults
ConfigArgs == {NoConfigPath, ExplicitConfig, DEFAULT_CONFIG_PATHS[2]}

\* what a location holds: nothing, a TOML file, a file tomllib rejects, a
\* directory (open raises IsADirectoryError)
ConfigKinds == {"absent", "toml", "bad", "dir"}

\* Path.exists()
path_exists(fs, p) == fs[p] # "absent"

\* the index of the first default location that exists, 0 when none does
FirstExisting(fs) ==
    IF \E i \in 1..Len(DEFAULT_CONFIG_PATHS) : path_exists(fs, DEFAULT_CONFIG_PATHS[i])
    THEN CHOOSE i \in 1..Len(DEFAULT_CONFIG_PATHS) :
             /\ path_exists(fs, DEFAULT_CONFIG_PATHS[i])
             /\ \A j \in 1..(i - 1) : ~path_exists(fs, DEFAULT_CONFIG_PATHS[j])
    ELSE 0

\* the locations tested by the loop of lines 53-56, which stops at the first hit
Searched(fs) ==
    IF FirstExisting(fs) = 0 THEN DEFAULT_CONFIG_PATHS
    ELSE SubSeq(DEFAULT_CONFIG_PATHS, 1, FirstExisting(fs))

\* a variant that searches the default locations when the explicit path is missing
SelectedPath_Fallback(fs, arg) ==
    IF arg # NoConfigPath /\ path_exists(fs, arg) THEN arg
    ELSE IF FirstExisting(fs) = 0 THEN NoConfigPath
    ELSE DEFAULT_CONFIG_PATHS[FirstExisting(fs)]

\* self.config_path after lines 41-56; an explicit path is kept even if missing
SelectedPath(fs, arg) ==
    IF arg # NoConfigPath THEN arg
    ELSE IF FirstExisting(fs) = 0 THEN NoConfigPath
    ELSE DEFAULT_CONFIG_PATHS[FirstExisting(fs)]

\* the search loop runs only without an explicit path
SearchedFor(fs, arg) == IF arg # NoConfigPath THEN <<>> ELSE Searched(fs)

\* _set_defaults: the built-in mapping
Defaults == [kind |-> "defaults", path |-> NoConfigPath]

\* the mapping tomllib.load returns for the file at p
Loaded(p) == [kind |-> "file", path |-> p]

Unset == [kind |-> "unset", path |-> NoConfigPath]

\* load: open and parse; every Exception ends in _set_defaults
load(fs, p) == IF fs[p] = "toml" THEN Loaded(p) ELSE Defaults

\* lines 58-62 reach load and load reaches the parser check of line 70
ReachesParser(fs, arg) ==
    /\ SelectedPath(fs, arg) # NoConfigPath
    /\ path_exists(fs, SelectedPath(fs, arg))

InitConfig ==
    /\ BootAtRest
    /\ CmdInitAtRest
    /\ DeskAtRest
    /\ RunAtRest
    /\ DepsAtRest
    /\ PathAtRest
    /\ RoundAtRest
    /\ SlugAtRest
    /\ cfg_pc = "start"
    /\ cfg_fs \in [ConfigLocations -> ConfigKinds]
    /\ cfg_arg \in ConfigArgs
    /\ tomllib_ok \in BOOLEAN
    /\ config_path = NoConfigPath
    /\ data = Unset
    /\ probed = <<>>
    /\ shown = "none"

\* Config(config_path): __init__ with the load or _set_defaults it ends in
ConfigInit ==
    /\ cfg_pc = "start"
    /\ probed' = SearchedFor(cfg_fs, cfg_arg)
    /\ config_path' = SelectedPath(cfg_fs, cfg_arg)
    /\ IF ReachesParser(cfg_fs, cfg_arg)
       THEN IF tomllib_ok
            THEN /\ data' = load(cfg_fs, SelectedPath(cfg_fs, cfg_arg))
                 /\ cfg_pc' = "built"
            ELSE \* raise SystemExit(1)
                 /\ data' = data
                 /\ cfg_pc' = "exit"
       ELSE /\ data' = Defaults
            /\ cfg_pc' = "built"
    /\ UNCHANGED <<cfg_fs, cfg_arg, tomllib_ok, shown>>
    /\ UNCHANGED notConfig

\* the source line of cmd_config --show (lines 186-191)
ShownFor(path, d) == IF path # NoConfigPath THEN "Loaded from" ELSE "Using default configuration"

\* wine-chroot config --show on the constructed Config
CmdConfigShow ==
    /\ cfg_pc = "built"
    /\ shown = "none"
    /\ shown' = ShownFor(config_path, data)
    /\ UNCHANGED <<cfg_pc, cfg_fs, cfg_arg, tomllib_ok, config_path, data, probed>>
    /\ UNCHANGED notConfig

NextConfig ==
    \/ ConfigInit
    \/ CmdConfigShow

SpecConfig == InitConfig /\ [][NextConfig]_vars

(***************************************************************************)
(* The init command (cli.py cmd_init) around ChrootManager.initialize      *)
(***************************************************************************)
NoAnswer == [given |-> FALSE, text |-> <<>>]

\* what the user types at "Continue? [y/N]: "
Responses ==
    {<<"y">>, <<" ", "Y", "E", "S", " ">>, <<>>, <<"n">>, <<"y", "e">>, <<"y", " ", "y">>}

\* variant: an empty answer counts as consent
Confirmed_DefaultYes(response) ==
    ToLower(Strip(response, " ")) \in {<<>>, <<"y">>, <<"y", "e", "s">>}

\* input(...).strip().lower() in ["y", "yes"]
Confirmed(response) == ToLower(Strip(response, " ")) \in {<<"y">>, <<"y", "e", "s">>}

\* the path of line 215: Path(args.path) if args.path else config.chroot_path
PromptPath(path) == IF path # None THEN path ELSE ConfigChrootPath

InitCmdInit ==
    /\ BootInit
    /\ ConfigAtRest
    /\ DeskAtRest
    /\ RunAtRest
    /\ DepsAtRest
    /\ PathAtRest
    /\ RoundAtRest
    /\ SlugAtRest
    /\ ci_pc = "start"
    /\ ci_args = [name |-> None, path |-> None, skip |-> FALSE, dry |-> FALSE]
    /\ prompt_path = NoPath
    /\ answer = NoAnswer
    /\ ci_ret = NoReturn

\* cmd_init up to input(): the warning with the installation path, unless --dry-run
CmdInit ==
    /\ ci_pc = "start"
    /\ \E name \in NameArgs, path \in PathArgs, skip \in BOOLEAN, dry \in BOOLEAN :
           /\ ci_args' = [name |-> name, path |-> path, skip |-> skip, dry |-> dry]
           /\ prompt_path' = IF dry THEN NoPath ELSE PromptPath(path)
           /\ ci_pc' = IF dry THEN "initialize" ELSE "prompt"
    /\ UNCHANGED <<answer, ci_ret>>
    /\ UNCHANGED notCmdInit

\* the user answers the prompt (lines 225-228)
AnswerPrompt ==
    /\ ci_pc = "prompt"
    /\ \E response \in Responses :
           /\ answer' = [given |-> TRUE, text |-> response]
           /\ IF Confirmed(response)
              THEN /\ ci_pc' = "initialize"
                   /\ ci_ret' = ci_ret
              ELSE /\ ci_pc' = "done"
                   /\ ci_ret' = Returned(1)
    /\ UNCHANGED <<ci_args, prompt_path>>
    /\ UNCHANGED notCmdInit

\* manager.initialize(chroot_name=args.name or None, chroot_path=..., ...) is entered
CmdInitCallsInitialize ==
    /\ ci_pc = "initialize"
    /\ runs = 0
    /\ Initialize(ci_args.name, ci_args.path, ci_args.skip, ci_args.dry)

\* return 0 if success else 1; an exception of initialize leaves cmd_init
CmdInitReturns ==
    /\ ci_pc = "initialize"
    /\ runs = 1
    /\ pc = "idle"
    /\ ci_pc' = "done"
    /\ ci_ret' = CASE result = "True" -> Returned(0)
                   [] result = "False" -> Returned(1)
                   [] OTHER -> Raised
    /\ UNCHANGED <<ci_args, prompt_path, answer>>
    /\ UNCHANGED notCmdInit

NextCmdInit ==
    \/ CmdInit
    \/ AnswerPrompt
    \/ CmdInitCallsInitialize
    \/ CheckPrerequisites
    \/ CheckPathAvailable
    \/ CreateBaseSystem
    \/ RegisterSchroot
    \/ ConfigureBindMounts
    \/ ConfigureLocales
    \/ ConfigureRepositories
    \/ EnableMultiarch
    \/ InstallWine
    \/ VerifyInstallation
    \/ CmdInitReturns

SpecCmdInit == InitCmdInit /\ [][NextCmdInit]_vars

(***************************************************************************)
(* Properties                                                              *)
(***************************************************************************)
Last(q) == q[Len(q)]

\* the failures the step functions name: non-zero exit, timeout, command not
\* found, permission denied, other OS error
ListedFailures == {"nonzero", "timeout", "notfound", "perm", "oserror"}

\* the steps that run in a call: all of StepOrder, less InstallWine under skip_wine
ExpectedSteps == SelectSeq(StepOrder, LAMBDA s : ~(skip_wine /\ s = "InstallWine"))

StepsAfter(s) == {t \in Steps : StepIndex(t) > StepIndex(s)}

\* C1: in a non-dry-run call the steps are entered in the order of StepOrder,
\* each at most once, external commands are started only by the step being
\* executed and so after every earlier step returned, and True is returned only
\* after VerifyInstallation was reached.
C1_StrictOrder ==
    ~dry_run =>
        /\ Len(stepsRun) <= Len(ExpectedSteps)
        /\ stepsRun = SubSeq(ExpectedSteps, 1, Len(stepsRun))
        /\ Range(invoked) \subseteq Range(stepsRun)
        /\ \A i, j \in 1..Len(invoked) :
               i < j => StepIndex(invoked[i]) < StepIndex(invoked[j])
        /\ lastCmds # <<>> => invoked # <<>> /\ Last(invoked) = Last(stepsRun)
        /\ pc \in Steps => \A i \in 1..Len(stepsRun) : StepIndex(stepsRun[i]) < StepIndex(pc)
        /\ result = "True" => stepsRun # <<>> /\ Last(stepsRun) = "VerifyInstallation"

C1_Witness ==
    /\ ~dry_run
    /\ ~skip_wine
    /\ result = "True"
    /\ stepsRun = StepOrder
    /\ Len(invoked) = 9

\* what a call that found its target path present must have left alone
Rejected ==
    /\ Range(stepsRun) \cap StepsAfter("CheckPathAvailable") = {}
    /\ Range(invoked) \cap StepsAfter("CheckPathAvailable") = {}
    /\ exists = entry.exists
    /\ schrootConf = entry.schrootConf
    /\ fstab = entry.fstab
    /\ backups = entry.backups
    /\ result # "True"
    /\ "CheckPathAvailable" \in Range(stepsRun) => pc = "idle" /\ result = "False"

C4_SoftFailureContinues ==
    (lastFailure.step \in SoftSteps /\ lastFailure.kind = "nonzero")
    => /\ result \in {"none", "True"}
       /\ pc = "idle" => result = "True"
       /\ pc \in Steps => StepIndex(pc) > StepIndex(lastFailure.step)
       /\ (pc \in {"idle", "VerifyInstallation"} /\ ~skip_wine)
              => "InstallWine" \in Range(stepsRun)

C4_Witness ==
    /\ lastFailure = [step |-> "ConfigureLocales", kind |-> "nonzero"]
    /\ ~dry_run
    /\ "InstallWine" \in Range(invoked)
    /\ result = "True"

C6_VerifyAdvisory ==
    (lastFailure.step = "VerifyInstallation" /\ lastFailure.kind \in ListedFailures)
    => pc = "idle" /\ result = "True"

C6_Witness ==
    /\ lastFailure = [step |-> "VerifyInstallation", kind |-> "timeout"]
    /\ result = "True"

\* C7: a dry-run call starts no external process at any step.
C7_DryRunNoProcess ==
    dry_run => invoked = <<>> /\ lastCmds = <<>>

C9_NoReconciliation ==
    /\ bootstrapped \subseteq exists
    /\ (/\ ~dry_run
        /\ "CreateBaseSystem" \in Range(stepsRun)
        /\ lastFailure.step # "CreateBaseSystem")
       => chroot_path \in exists
    /\ (runs > 0 /\ chroot_path \in entry.bootstrapped) => Rejected

C9_Witness ==
    /\ runs = 2
    /\ chroot_path \in entry.bootstrapped
    /\ stepsRun = <<"CheckPrerequisites", "CheckPathAvailable">>
    /\ result = "False"

\* w is "C:\" followed by what follows the leftmost "drive_c/" of p, each "/"
\* turned into "\"; it matches ^[A-Za-z]:\\ and holds no "/"
IsDriveCConversion(p, w) ==
    /\ \E k \in 1..Len(p) :
        /\ OccursAt(p, DriveC, k)
        /\ \A j \in 1..(k - 1) : ~OccursAt(p, DriveC, j)
        /\ Len(w) = 3 + Len(p) - (k + 7)
        /\ \A i \in 1..(Len(w) - 3) :
               w[3 + i] = IF p[k + 7 + i] = Slash THEN Backslash ELSE p[k + 7 + i]
    /\ Len(w) >= 3
    /\ w[1] = "C" /\ w[2] = ":" /\ w[3] = Backslash
    /\ MatchesDrive(w)
    /\ \A i \in 1..Len(w) : w[i] # Slash

\* C10 as stated: every path containing "drive_c/" is converted.
C10_DriveCAlwaysConverted ==
    (path_pc = "converted" /\ Contains(path_in, DriveC))
    => IsDriveCConversion(path_in, path_out)

\* C10 amended: every path containing "drive_c/" that does not already match
\* ^[A-Za-z]:\\ is converted; one that matches is returned unchanged.
C10_DriveCConverted ==
    (path_pc = "converted" /\ Contains(path_in, DriveC))
    => IF MatchesDrive(path_in) THEN path_out = path_in
       ELSE IsDriveCConversion(path_in, path_out)

C10_Witness ==
    /\ path_pc = "converted"
    /\ ~MatchesDrive(path_in)
    /\ \E i, j \in 1..Len(path_in) : i < j /\ OccursAt(path_in, DriveC, i)
                                        /\ OccursAt(path_in, DriveC, j)
    /\ \E i \in 4..Len(path_out) : path_out[i] = Backslash

\* C11: converting a path <chrootPath>/root/<winePrefix>/drive_c/<r> to Windows form
\* and back with the same chroot path and wine prefix gives the path again
C11_RoundTrip == path_pc = "restored" => path_back = PurePath(path_in)

\* ^[a-z0-9]+(-[a-z0-9]+)*$: groups of [a-z0-9] separated by single hyphens
MatchesSlugPattern(s) ==
    /\ s # <<>>
    /\ \A i \in 1..Len(s) : s[i] \in AlNum \cup {Hyphen}
    /\ s[1] # Hyphen
    /\ s[Len(s)] # Hyphen
    /\ \A i \in 1..(Len(s) - 1) : ~(s[i] = Hyphen /\ s[i + 1] = Hyphen)

\* C12: slugify applied to its own result returns it unchanged, and a result is
\* empty or matches ^[a-z0-9]+(-[a-z0-9]+)*$
C12_SlugIdempotent ==
    /\ slug_pc # "start" => slug_out = <<>> \/ MatchesSlugPattern(slug_out)
    /\ slug_pc = "reslugged" => slug_again = slug_out

\* a text with upper case, a run of white space and punctuation inside and a
\* hyphen at the end has been slugged twice
C12_Witness ==
    /\ slug_pc = "reslugged"
    /\ slug_in = <<"A", " ", "!", "b", Hyphen>>
    /\ slug_out = <<"a", Hyphen, "b">>

\* the five required tools, the emulation layer under the name the check reports
RequiredTools == {"schroot", "debootstrap", QemuUserStatic, "wrestool", "icotool"}

\* a required tool is absent from the host; the emulation layer is absent when
\* neither of its binary names is found
Absent(tool) ==
    IF tool = QemuUserStatic
    THEN QemuOnPath \notin host /\ QemuUserStatic \notin host
    ELSE tool \notin host

\* the value returned names exactly the absent tools, each once
DependencyReport ==
    dep_pc = "checked" =>
        /\ dep_result.ok = (\A t \in RequiredTools : ~Absent(t))
        /\ dep_result.ok => dep_result.missing = <<>>
        /\ Range(dep_result.missing) = {t \in RequiredTools : Absent(t)}
        /\ Len(dep_result.missing) = Cardinality({t \in RequiredTools : Absent(t)})

\* C13: check_system_dependencies returns (true, []) when the five required tools
\* are present and otherwise (false, missing) with exactly the absent tools in
\* missing; either binary name makes the emulation layer present; the check
\* changes nothing of the host, the filesystem or the bootstrapper
C13_DependencyCheck ==
    /\ []DependencyReport
    /\ [][dep_pc = "start" /\ dep_pc' = "checked" => UNCHANGED bootVars]_vars

\* the check has reported wrestool alone as missing on a host whose emulation
\* layer is installed under the name qemu-user-static only
C13_Witness ==
    /\ dep_pc = "checked"
    /\ QemuOnPath \notin host
    /\ QemuUserStatic \in host
    /\ dep_result = [ok |-> FALSE, missing |-> <<"wrestool">>]

\* C14: when wait or show_terminal is requested WineRunner.run runs the command
\* synchronously and returns the exit code of the wine process; otherwise it
\* starts the process detached and returns 0, whatever the process exits with
C14_ExecutionMode ==
    run_mode # "none" =>
        /\ run_mode = "sync" <=> (run_args.wait \/ run_args.terminal)
        /\ run_mode = "sync" => child.state = "exited" /\ run_ret = Returned(child.code)
        /\ run_mode = "detached" => run_ret = Returned(0)

\* a detached wine process has exited with a failure after run returned 0, and a
\* synchronous call is not the case
C14_Witness ==
    /\ run_mode = "detached"
    /\ ~run_args.wait
    /\ child = [state |-> "exited", code |-> 2]
    /\ run_ret = Returned(0)

\* a synchronous run under show_terminal alone has returned the exit code 2
SyncRunReturnsCode ==
    /\ run_mode = "sync"
    /\ ~run_args.wait
    /\ run_args.terminal
    /\ run_ret = Returned(2)

\* C15: for the Windows-format path C:\Windows\notepad.exe, with wine installed in
\* the chroot and the privilege tool and schroot on the host, cmd_run reaches
\* WineRunner.run and launches wine with that path unchanged
C15_WindowsPathAccepted ==
    (/\ run_pc = "done"
     /\ run_args.exe = WinExe
     /\ check_wine_installation(host, run_cfg, wine_installed))
        => run_cmd # NoCmd /\ run_cmd.exe = WinExe

\* the positions of the double quotes of a line
QuoteMarks(line) == SelectSeq([i \in 1..Len(line) |-> i], LAMBDA i : line[i] = "\"")

\* what a line has between its first and its last double quote
Quoted(line) ==
    LET marks == QuoteMarks(line)
    IN SubSeq(line, marks[1] + 1, marks[Len(marks)] - 1)

\* a line names the configured chroot after `schroot -c` and has a quoted part
EmbedsChroot(line) ==
    /\ Contains(line, <<" ", "s", "c", "h", "r", "o", "o", "t", " ", "-", "c", " ">> \o ChrootNameChars \o <<" ">>)
    /\ Len(QuoteMarks(line)) >= 2

\* the launcher the call that has just returned wrote
Written == launchers[desk_ret.file]

\* C16 as stated: every launcher written has an Exec line that embeds the
\* configured chroot name and a Windows-style drive-letter path in double quotes
C16_ExecAlwaysWindowsStyle ==
    \A f \in DOMAIN launchers :
        LET execs == LinesWith(launchers[f], ExecKey)
        IN /\ Len(execs) = 1
           /\ EmbedsChroot(execs[1])
           /\ MatchesDrive(Quoted(execs[1]))

\* C16: every launcher written has an Exec line that embeds the configured chroot
\* name and, in double quotes, the translated exe path: a drive-letter path when
\* the exe path contains drive_c/ or is in drive-letter form already, and the exe
\* path itself otherwise
C16_ExecQuotesTranslatedPath ==
    desk_ret.kind = "return" =>
        LET execs == LinesWith(Written, ExecKey)
            exe_path == PurePath(desk_call.exe)
        IN /\ Len(execs) = 1
           /\ EmbedsChroot(execs[1])
           /\ IF Contains(exe_path, DriveC) \/ MatchesDrive(exe_path)
              THEN MatchesDrive(Quoted(execs[1]))
              ELSE Quoted(execs[1]) = exe_path

\* a launcher has been written for an executable outside any drive_c, with the
\* Unix path in the quotes
C16_Witness ==
    /\ desk_ret.kind = "return"
    /\ desk_call.exe = HomeExe
    /\ Quoted(LinesWith(Written, ExecKey)[1]) = HomeExe

\* the launcher path and the Exec command of the end-to-end example
MyAppDesktop ==
    <<"/", "h", "o", "m", "e", "/", "u", "/", ".", "l", "o", "c", "a", "l", "/", "s",
      "h", "a", "r", "e", "/", "a", "p", "p", "l", "i", "c", "a", "t", "i", "o", "n",
      "s", "/", "m", "y", "-", "a", "p", "p", ".", "d", "e", "s", "k", "t", "o", "p">>

MyAppExec ==
    <<"s", "c", "h", "r", "o", "o", "t", " ", "-", "c", " ", "d", "e", "b", "i", "a",
      "n", "-", "a", "m", "d", "6", "4", " ", "-", "-", " ", "w", "i", "n", "e", " ",
      "\"", "C", ":", "\\", "P", "r", "o", "g", "r", "a", "m", " ", "F", "i", "l", "e",
      "s", "\\", "A", "p", "p", "\\", "A", "p", "p", ".", "e", "x", "e", "\"">>

\* C17: without a custom filename the launcher is <applications_dir>/<slugify(name)>.desktop
\* and its Exec line contains schroot -c <chroot name> -- wine "<translated exe path>";
\* "My App!" with the exe under drive_c/Program Files/App gives my-app.desktop and
\* C:\Program Files\App\App.exe; a custom filename without .desktop gets it appended
C17_LauncherNameAndExec ==
    desk_ret.kind = "return" =>
        LET execs == LinesWith(Written, ExecKey)
            win == linux_path_to_windows(PurePath(desk_call.exe))
        IN /\ desk_call.filename = <<>> =>
                  desk_ret.file = ApplicationsDir \o <<Slash>> \o slugify(desk_call.name)
                                      \o DotDesktop
           /\ desk_call.filename # <<>> /\ ~EndsWith(desk_call.filename, DotDesktop) =>
                  desk_ret.file = ApplicationsDir \o <<Slash>> \o desk_call.filename
                                      \o DotDesktop
           /\ Len(execs) = 1
           /\ Contains(execs[1], <<"s", "c", "h", "r", "o", "o", "t", " ", "-", "c",
                                    " ">> \o ChrootNameChars
                                     \o <<" ", "-", "-", " ", "w", "i", "n", "e", " ",
                                          "\"">> \o win \o <<"\"">>)
           /\ (/\ desk_call.name = <<"M", "y", " ", "A", "p", "p", "!">>
               /\ desk_call.exe = ProgramFilesExe
               /\ desk_call.filename = <<>>)
                  => desk_ret.file = MyAppDesktop /\ Contains(execs[1], MyAppExec)

\* the launcher of the end-to-end example has been written, and so has one under
\* a custom filename
C17_Witness ==
    /\ desk_ret = LauncherReturned(MyAppDesktop)
    /\ desk_call.exe = ProgramFilesExe
    /\ ApplicationsDir \o <<Slash>> \o <<"c", "u", "s", "t", "o", "m">> \o DotDesktop \in DOMAIN launchers

\* C18: a launcher written has exactly one Icon line: the path of the extracted
\* PNG when extraction was requested and returned one, and wine otherwise
C18_ExactlyOneIcon ==
    /\ \A f \in DOMAIN launchers : Len(LinesWith(launchers[f], IconKey)) = 1
    /\ desk_ret.kind = "return" =>
           LinesWith(Written, IconKey) =
               <<IconKey \o (IF desk_call.icon /\ icon_ret.kind = "path"
                              THEN icon_ret.path ELSE WineIcon)>>
    /\ icon_ret.kind = "path" => desk_call.icon /\ icon_ret.path \in DOMAIN icon_files

\* a launcher whose icon was requested but not extracted has been written with
\* the generic icon, after one with an extracted icon
C18_Witness ==
    /\ desk_ret.kind = "return"
    /\ desk_call.icon
    /\ icon_ret = IconNone
    /\ LinesWith(Written, IconKey) = <<IconKey \o WineIcon>>
    /\ \E f \in DOMAIN launchers :
           \E p \in DOMAIN icon_files : LinesWith(launchers[f], IconKey) = <<IconKey \o p>>

\* C19: when the wrestool and icotool runs of a call produce no PNG file,
\* extract_icon returns None and the icon directory is as it was
C19_NoPngNoIcon ==
    (desk_call.icon /\ icon_ret.kind \in {"path", "None"} /\ produced = {})
        => icon_ret = IconNone /\ icon_files = entry_icons

\* the stage failures of extract_icon: a tool missing, a non-zero exit of
\* wrestool or icotool, no output
StageFailures ==
    {"tool_missing", "sudo_missing", "wrestool_nonzero", "icotool_nonzero", "no_ico", "no_png"}

\* C20: after a stage failure of extract_icon the call yields no icon, no
\* exception leaves extract_icon, and create_launcher writes the launcher
C20_IconFailureNotFatal ==
    (desk_pc = "idle" /\ icon_fail \in StageFailures)
        => /\ icon_ret = IconNone
           /\ desk_ret.kind = "return"
           /\ desk_ret.file \in DOMAIN launchers

\* the first path of q that exists, NoConfigPath when none does
RECURSIVE FirstHit(_, _)
FirstHit(fs, q) ==
    IF q = <<>> THEN NoConfigPath
    ELSE IF fs[Head(q)] # "absent" THEN Head(q)
    ELSE FirstHit(fs, Tail(q))

\* Config.data when the paths of q are tried in order: the first that exists
\* is parsed, and a missing or unparsable file leaves the built-in defaults
DataFrom(fs, q) ==
    IF FirstHit(fs, q) = NoConfigPath THEN Defaults
    ELSE IF fs[FirstHit(fs, q)] = "toml" THEN Loaded(FirstHit(fs, q))
    ELSE Defaults

\* C21 as stated: the explicit path is tried and, when it fails, the default
\* locations in order; the built-in defaults are populated only when this whole
\* chain yields no file
C21_FallbackChain ==
    cfg_pc = "built" =>
        data = DataFrom(cfg_fs, IF cfg_arg # NoConfigPath
                                THEN <<cfg_arg>> \o DEFAULT_CONFIG_PATHS
                                ELSE DEFAULT_CONFIG_PATHS)

\* C21 amended: an explicit path is the only candidate (a missing explicit file
\* gives the built-in defaults without any search), the default locations are
\* probed in order only when no explicit path is given, the first that exists is
\* parsed, a file that fails to open or parse gives the defaults, and
\* construction aborts only when no TOML parser is available
C21_ExplicitOrSearch ==
    /\ cfg_pc # "start" =>
           probed = IF cfg_arg # NoConfigPath THEN <<>>
                    ELSE SubSeq(DEFAULT_CONFIG_PATHS, 1,
                                CHOOSE n \in 1..Len(DEFAULT_CONFIG_PATHS) :
                                    /\ \A j \in 1..(n - 1) : cfg_fs[DEFAULT_CONFIG_PATHS[j]] = "absent"
                                    /\ (n < Len(DEFAULT_CONFIG_PATHS) =>
                                            cfg_fs[DEFAULT_CONFIG_PATHS[n]] # "absent"))
    /\ cfg_pc = "built" =>
           data = DataFrom(cfg_fs, IF cfg_arg # NoConfigPath
                                   THEN <<cfg_arg>>
                                   ELSE DEFAULT_CONFIG_PATHS)
    /\ cfg_pc = "exit" =>
           /\ ~tomllib_ok
           /\ FirstHit(cfg_fs, IF cfg_arg # NoConfigPath THEN <<cfg_arg>>
                               ELSE DEFAULT_CONFIG_PATHS) # NoConfigPath
    /\ (cfg_pc # "start" /\ tomllib_ok) => cfg_pc = "built"

\* an explicit path that is missing, a default location holding a valid file,
\* and the built-in defaults in force
C21_Witness ==
    /\ cfg_pc = "built"
    /\ cfg_arg = ExplicitConfig
    /\ cfg_fs[ExplicitConfig] = "absent"
    /\ cfg_fs[DEFAULT_CONFIG_PATHS[1]] = "toml"
    /\ probed = <<>>
    /\ data = Defaults

\* a configuration file found by the search that fails to parse
ParseErrorDegrades ==
    /\ cfg_pc = "built"
    /\ cfg_arg = NoConfigPath
    /\ cfg_fs[DEFAULT_CONFIG_PATHS[1]] = "absent"
    /\ cfg_fs[DEFAULT_CONFIG_PATHS[2]] = "bad"
    /\ cfg_fs[DEFAULT_CONFIG_PATHS[3]] = "toml"
    /\ data = Defaults

\* C30: config_path is set only when data was loaded from that file; with the
\* built-in defaults in force it is None and config --show says so
C30_ConfigPathMeansLoaded ==
    /\ cfg_pc = "built" =>
           /\ config_path # NoConfigPath => data = Loaded(config_path)
           /\ data = Defaults => config_path = NoConfigPath
    /\ (shown # "none" /\ data = Defaults) => shown = "Using default configuration"

ExitCode130WithoutInterrupt ==
    /\ main_ret = [done |-> TRUE, code |-> 130]
    /\ run_ret = Returned(130)

\* the user interrupted a synchronous run and main returned 130
InterruptedRun ==
    /\ main_ret = [done |-> TRUE, code |-> 130]
    /\ run_ret = Interrupted

\* the failures C23 lists: non-zero exit, command not found, permission denied,
\* OS error, undecodable output
SoftFailures == {"nonzero", "notfound", "perm", "oserror", "unicode"}

\* C23: whatever way a command of a soft step fails, the step catches the failure
\* and returns True: no exception escapes initialize and the call goes on with
\* the steps after it
C23_SoftStepsCatchEveryFailure ==
    (lastFailure.step \in SoftSteps /\ lastFailure.kind \in SoftFailures)
    => /\ result \in {"none", "True"}
       /\ pc \in Steps => StepIndex(pc) > StepIndex(lastFailure.step)

\* the undecodable output of dpkg --add-architecture i386 has ended initialize
UnicodeEscapesMultiarch ==
    /\ lastFailure = [step |-> "EnableMultiarch", kind |-> "unicode"]
    /\ lastCmds = <<"dpkg --add-architecture i386">>
    /\ result = "raised"

\* C24: a step of ConfigureBindMounts that starts the write of the bind-mount
\* table while a table exists has made the backup copy first, successfully; when
\* the backup copy fails the write is not started, the table is as it was, and
\* initialize returns False at this step
C24_BackupBeforeOverwrite ==
    [][(pc = "ConfigureBindMounts" /\ fstab # "absent" /\ ~dry_run) =>
            /\ "sudo tee fstab" \in Range(lastCmds') =>
                   /\ lastCmds' = <<"sudo cp fstab backup", "sudo tee fstab">>
                   /\ backups' = backups + 1
            /\ fstab' # fstab => backups' = backups + 1
            /\ "sudo tee fstab" \notin Range(lastCmds') =>
                   /\ lastCmds' = <<"sudo cp fstab backup">>
                   /\ lastFailure'.step = "ConfigureBindMounts"
                   /\ fstab' = fstab
                   /\ pc' = "idle"
                   /\ result' = "False"]_vars

\* an existing table was overwritten after one backup copy, and the call went on
C24_Witness ==
    /\ entry.fstab = "original"
    /\ fstab = "written"
    /\ backups = entry.backups + 1
    /\ "ConfigureLocales" \in Range(stepsRun)

\* the backup copy failed: the table is the original one and the call is over
BackupFailedTableKept ==
    /\ lastCmds = <<"sudo cp fstab backup">>
    /\ lastFailure.step = "ConfigureBindMounts"
    /\ fstab = "original"
    /\ result = "False"

\* C29: the PNG a successful extract_icon copied to the destination was produced
\* by the wrestool and icotool runs of that same call
C29_OwnPngSelected ==
    icon_ret.kind = "path" => icon_files[icon_ret.path] = desk_calls

\* the second call's extraction succeeded with its own PNG written, and the file
\* copied to its destination is the one an earlier call left behind
LeftoverPngSelected ==
    /\ desk_calls = 2
    /\ icon_ret.kind = "path"
    /\ produced # {}
    /\ icon_files[icon_ret.path] = 1

ZedDesktop == ApplicationsDir \o <<Slash>> \o <<"z", "e", "d">> \o DotDesktop

RegeneratedListedOnce ==
    /\ desk_calls = 2
    /\ listed.done
    /\ Len(listed.list) = 1
    /\ listed.list[1][1] = MyApp
    /\ live[listed.list[1][2]].filename # <<>>
    /\ remove_ret = [file |-> ZedDesktop, existed |-> FALSE, value |-> FALSE]

\* C28: a create_launcher call without a custom filename never writes the file
\* that holds the launcher of a differently named application created without a
\* custom filename
C28_OneFilePerApplication ==
    [][(desk_pc = "write" /\ desk_call.filename = <<>>) =>
           \A f \in DOMAIN live :
               (live[f].filename = <<>> /\ live[f].name # desk_call.name)
                   => desk_ret'.file # f]_vars

\* the launcher of My App! has been replaced by that of my app
LauncherOverwritten ==
    /\ desk_calls = 2
    /\ desk_call.name = MyAppLower
    /\ desk_ret = LauncherReturned(MyAppDesktop)
    /\ Cardinality(DOMAIN launchers) = 1
    /\ remove_ret = NoRemove

\* C26: with --dry-run nothing is asked; without it initialize is entered only
\* after an answer that is y or yes once trimmed and lower-cased, and after any
\* other answer cmd_init returns 1 with initialize never called, no external
\* command started and the filesystem as it was
C26_NoBootstrapWithoutConsent ==
    /\ (ci_pc # "start" /\ ci_args.dry) => prompt_path = NoPath /\ ~answer.given
    /\ (ci_pc # "start" /\ ~ci_args.dry) => prompt_path # NoPath
    /\ (~ci_args.dry /\ runs > 0) =>
           /\ answer.given
           /\ ToLower(Strip(answer.text, " ")) \in {<<"y">>, <<"y", "e", "s">>}
    /\ (answer.given /\ ToLower(Strip(answer.text, " ")) \notin {<<"y">>, <<"y", "e", "s">>}) =>
           /\ ci_pc = "done"
           /\ ci_ret = Returned(1)
           /\ runs = 0
           /\ pc = "idle"
           /\ invoked = <<>>
           /\ Snapshot(exists, schrootConf, fstab, backups, bootstrapped) = entry

\* the empty answer was given on a host that has every tool: cmd_init returned 1
\* and nothing ran
C26_Witness ==
    /\ answer = [given |-> TRUE, text |-> <<>>]
    /\ host = ToolAtoms
    /\ ci_ret = Returned(1)
    /\ runs = 0

\* the answer " YES " was accepted and the chroot was bootstrapped
ConsentBootstraps ==
    /\ answer = [given |-> TRUE, text |-> <<" ", "Y", "E", "S", " ">>]
    /\ bootstrapped # {}
    /\ ci_ret = Returned(0)

\* C27: the installation path the confirmation prompt printed is the path
\* initialize works on and bootstraps
C27_PromptShowsBootstrapPath ==
    (prompt_path # NoPath /\ runs > 0) =>
        /\ chroot_path = prompt_path
        /\ bootstrapped \subseteq {prompt_path}

\* --name wine2 without --path: the prompt printed /srv/debian-amd64 and
\* debootstrap has populated /srv/wine2
PromptedOtherPath ==
    /\ ci_args.name = CustomName
    /\ ci_args.path = None
    /\ prompt_path = ConfigChrootPath
    /\ bootstrapped = {SrvPath(CustomName)}

====
